---- MODULE Spec2Model ----
(***************************************************************************)
(* Financial budget dashboard: PDF line extraction, CSV column             *)
(* reconciliation, canonical dataset build, summary statistics, the admin  *)
(* session (upload, manual entry, Save Changes), the probability engine    *)
(* (scenario, risk assessment, cash flow projection, Monte Carlo), the     *)
(* Excel summary sheet, the shared data access and the authentication of   *)
(* the admin interface.                                                    *)
(*                                                                         *)
(* Encoding.  A Python str is a sequence of one-character strings.  A      *)
(* float is an integer number of hundredths (42134.00 is 4213400); the     *)
(* inputs carry at most two decimals, so sums and differences are exact.   *)
(* A DataFrame is [columns |-> sequence of names, rows |-> sequence of     *)
(* rows], a row being a sequence of cells aligned with columns.  A cell    *)
(* is Num(n), NaN or Str(s).                                               *)
(***************************************************************************)
EXTENDS Integers, Sequences, FiniteSets, TLC

VARIABLES df, data_version, summary_stats, last,
          access_mode, admin_logged_in, admin_login_time, failed_login_attempts, now

\* the session's login state and the clock (datetime.now(), in minutes)
auth_vars == <<access_mode, admin_logged_in, admin_login_time, failed_login_attempts, now>>

vars == <<df, data_version, summary_stats, last, auth_vars>>

(***************************************************************************)
(* Bounds of the model.                                                    *)
(***************************************************************************)
MaxCsvRows == 2
MaxPages == 1
MaxVersion == 2
MaxDfRows == 2
MaxDocPages == 2
MaxClock == 33
MaxFailedLogins == 2

(***************************************************************************)
(* Python str operations.                                                  *)
(***************************************************************************)
Digits == <<"0","1","2","3","4","5","6","7","8","9">>
UpperCase == <<"A","B","C","D","E","F","G","H","I","J","K","L","M","N","O","P","Q","R","S","T","U","V","W","X","Y","Z">>
LowerCase == <<"a","b","c","d","e","f","g","h","i","j","k","l","m","n","o","p","q","r","s","t","u","v","w","x","y","z">>

IndexOf(c, s) == IF \E i \in 1..Len(s) : s[i] = c
                 THEN CHOOSE i \in 1..Len(s) : s[i] = c /\ \A j \in 1..(i-1) : s[j] # c
                 ELSE 0

isdigit(c) == IndexOf(c, Digits) # 0

isspace(c) == c \in {" ", "\t", "\n", "\r"}

lower(s) == [i \in 1..Len(s) |->
               IF IndexOf(s[i], UpperCase) # 0 THEN LowerCase[IndexOf(s[i], UpperCase)] ELSE s[i]]

\* s.replace(a, b) for a one-character a
RECURSIVE replace(_, _, _)
replace(s, a, b) == IF s = <<>> THEN <<>>
                    ELSE (IF Head(s) = a THEN b ELSE <<Head(s)>>) \o replace(Tail(s), a, b)

RECURSIVE lstrip(_)
lstrip(s) == IF s # <<>> /\ isspace(Head(s)) THEN lstrip(Tail(s)) ELSE s

RECURSIVE rstrip(_)
rstrip(s) == IF s # <<>> /\ isspace(s[Len(s)]) THEN rstrip(SubSeq(s, 1, Len(s) - 1)) ELSE s

strip(s) == rstrip(lstrip(s))

\* sub in s
contains(s, sub) == \E i \in 0..(Len(s) - Len(sub)) : SubSeq(s, i + 1, i + Len(sub)) = sub

\* s.split(sep) for a one-character sep
RECURSIVE split(_, _)
split(s, sep) == IF IndexOf(sep, s) = 0 THEN <<s>>
                 ELSE <<SubSeq(s, 1, IndexOf(sep, s) - 1)>>
                      \o split(SubSeq(s, IndexOf(sep, s) + 1, Len(s)), sep)

\* number of words of s.split()
RECURSIVE word_count(_)
word_count(s) == LET t == lstrip(s) IN
                 IF t = <<>> THEN 0
                 ELSE IF \E i \in 1..Len(t) : isspace(t[i])
                      THEN 1 + word_count(SubSeq(t, CHOOSE i \in 1..Len(t) :
                                 isspace(t[i]) /\ \A j \in 1..(i-1) : ~isspace(t[j]), Len(t)))
                      ELSE 1

(***************************************************************************)
(* float(text): an optional sign, digits with an optional fraction.  The   *)
(* result is in hundredths; ok is FALSE where Python raises ValueError.    *)
(***************************************************************************)
RECURSIVE digits_value(_)
digits_value(s) == IF s = <<>> THEN 0
                   ELSE 10 * digits_value(SubSeq(s, 1, Len(s) - 1)) + (IndexOf(s[Len(s)], Digits) - 1)

all_digits(s) == \A i \in 1..Len(s) : isdigit(s[i])

float(text) ==
    LET s == strip(text)
        neg == s # <<>> /\ Head(s) = "-"
        u == IF s # <<>> /\ Head(s) \in {"-", "+"} THEN Tail(s) ELSE s
        dot == IndexOf(".", u)
        ip == IF dot = 0 THEN u ELSE SubSeq(u, 1, dot - 1)
        fp == IF dot = 0 THEN <<>> ELSE SubSeq(u, dot + 1, Len(u))
        ok == all_digits(ip) /\ all_digits(fp) /\ Len(ip) + Len(fp) > 0
        f2 == SubSeq(fp \o <<"0","0">>, 1, 2)
        mag == 100 * digits_value(ip) + digits_value(f2)
    IN [ok |-> ok, v |-> IF ~ok THEN 0 ELSE IF neg THEN 0 - mag ELSE mag]

(***************************************************************************)
(* Cells and DataFrames.                                                   *)
(***************************************************************************)
NaN == [t |-> "nan"]
None == [t |-> "none"]
Num(n) == [t |-> "num", v |-> n]
Str(s) == [t |-> "str", s |-> s]

EmptyDF == [columns |-> <<>>, rows |-> <<>>]

\* DataFrame.empty
empty(d) == Len(d.columns) = 0 \/ Len(d.rows) = 0

\* name in d.columns
has_col(d, name) == \E j \in 1..Len(d.columns) : d.columns[j] = name

col_count(d, name) == Cardinality({j \in 1..Len(d.columns) : d.columns[j] = name})

col_index(d, name) == IndexOf(name, d.columns)

\* d[name] as the sequence of its cells
column(d, name) == [r \in 1..Len(d.rows) |-> d.rows[r][col_index(d, name)]]

\* d[name] = values, for a name not yet among the columns
with_column(d, name, values) ==
    [columns |-> Append(d.columns, name),
     rows |-> [r \in 1..Len(d.rows) |-> Append(d.rows[r], values[r])]]

\* an object column holds at least one str
is_object(cells) == \E r \in 1..Len(cells) : cells[r].t = "str"

\* a - b on floats
fsub(a, b) == IF a.t = "num" /\ b.t = "num" THEN Num(a.v - b.v) ELSE NaN

\* a == b on floats: a NaN equals nothing
feq(a, b) == a.t = "num" /\ b.t = "num" /\ a.v = b.v

(***************************************************************************)
(* pd.read_csv: a column is numeric when every non-blank cell parses as a  *)
(* number; otherwise its cells stay text.  Blank cells are NaN.  A file    *)
(* without a header raises (EmptyDataError).                               *)
(***************************************************************************)
read_csv(csv) ==
    LET ncols == Len(csv.header)
        numeric(j) == \A r \in 1..Len(csv.rows) :
                         csv.rows[r][j] = <<>> \/ float(csv.rows[r][j]).ok
        cell(r, j) == IF csv.rows[r][j] = <<>> THEN NaN
                      ELSE IF numeric(j) THEN Num(float(csv.rows[r][j]).v)
                      ELSE Str(csv.rows[r][j])
    IN IF ncols = 0 THEN [raised |-> TRUE, df |-> EmptyDF]
       ELSE [raised |-> FALSE,
             df |-> [columns |-> csv.header,
                     rows |-> [r \in 1..Len(csv.rows) |-> [j \in 1..ncols |-> cell(r, j)]]]]

(***************************************************************************)
(* FinancialDataProcessor._map_csv_columns                                 *)
(***************************************************************************)
column_mappings ==
    << [target |-> <<"d","e","s","c","r","i","p","t","i","o","n">>,
        names |-> << <<"d","e","s","c","r","i","p","t","i","o","n">>, <<"d","e","s","c">>, <<"i","t","e","m">>, <<"n","a","m","e">>, <<"d","e","t","a","i","l","s">> >>],
       [target |-> <<"b","u","d","g","e","t">>,
        names |-> << <<"b","u","d","g","e","t">>, <<"b","u","d","g","e","t","_","2","0","2","5","_","2","6">>, <<"b","u","d","g","e","t","e","d">>, <<"p","l","a","n","n","e","d">>, <<"a","l","l","o","c","a","t","i","o","n">> >>],
       [target |-> <<"a","c","t","u","a","l">>,
        names |-> << <<"a","c","t","u","a","l">>, <<"a","c","t","u","a","l","_","n","e","t">>, <<"s","p","e","n","t">>, <<"u","s","e","d">>, <<"e","x","p","e","n","d","i","t","u","r","e">> >>],
       [target |-> <<"c","a","t","e","g","o","r","y">>,
        names |-> << <<"c","a","t","e","g","o","r","y">>, <<"c","a","t">>, <<"t","y","p","e">>, <<"g","r","o","u","p">>, <<"s","e","c","t","i","o","n">> >>],
       [target |-> <<"b","a","l","a","n","c","e">>,
        names |-> << <<"b","a","l","a","n","c","e">>, <<"r","e","m","a","i","n","i","n","g">>, <<"v","a","r","i","a","n","c","e">>, <<"d","i","f","f","e","r","e","n","c","e">> >>],
       [target |-> <<"c","o","d","e">>,
        names |-> << <<"c","o","d","e">>, <<"a","c","c","o","u","n","t","_","c","o","d","e">>, <<"r","e","f">>, <<"r","e","f","e","r","e","n","c","e">>, <<"i","d">> >> ] >>

essential_cols == << <<"d","e","s","c","r","i","p","t","i","o","n">>, <<"b","u","d","g","e","t">>, <<"a","c","t","u","a","l">> >>

\* variant: the last possible_name among the columns wins
last_hit(d, names) ==
    IF \E k \in 1..Len(names) : has_col(d, names[k])
    THEN CHOOSE k \in 1..Len(names) :
            has_col(d, names[k]) /\ \A m \in (k+1)..Len(names) : ~has_col(d, names[m])
    ELSE 0

\* the first possible_name of a target that is among the columns (0: none)
first_hit(d, names) ==
    IF \E k \in 1..Len(names) : has_col(d, names[k])
    THEN CHOOSE k \in 1..Len(names) :
            has_col(d, names[k]) /\ \A m \in 1..(k-1) : ~has_col(d, names[m])
    ELSE 0

\* column_map.get(name, name)
column_map(d, name) ==
    IF \E t \in 1..Len(column_mappings) :
          first_hit(d, column_mappings[t].names) # 0
          /\ column_mappings[t].names[first_hit(d, column_mappings[t].names)] = name
    THEN column_mappings[CHOOSE t \in 1..Len(column_mappings) :
            first_hit(d, column_mappings[t].names) # 0
            /\ column_mappings[t].names[first_hit(d, column_mappings[t].names)] = name].target
    ELSE name

\* df.rename(columns=column_map)
rename(d) == [d EXCEPT !.columns = [j \in 1..Len(d.columns) |-> column_map(d, d.columns[j])]]

\* [col for col in cols if col not in d.columns]
RECURSIVE not_in_columns(_, _)
not_in_columns(cols, d) ==
    IF cols = <<>> THEN <<>>
    ELSE (IF has_col(d, Head(cols)) THEN <<>> ELSE <<Head(cols)>>) \o not_in_columns(Tail(cols), d)

\* variant: the check forgets actual
missing_essential_without_actual(d) == not_in_columns(<< <<"d","e","s","c","r","i","p","t","i","o","n">>, <<"b","u","d","g","e","t">> >>, d)

missing_essential(d) == not_in_columns(essential_cols, d)

_map_csv_columns(d) ==
    LET m == rename(d) IN
    IF missing_essential(m) # <<>>
    THEN [df |-> EmptyDF, missing |-> missing_essential(m)]
    ELSE [df |-> m, missing |-> <<>>]

(***************************************************************************)
(* FinancialDataProcessor.process_csv.  Any exception is caught and the    *)
(* empty DataFrame returned (raised); missing is the list written under    *)
(* "Missing required columns".                                             *)
(***************************************************************************)
\* df.columns.str.lower().str.replace(' ', '_')
standardize(d) ==
    [d EXCEPT !.columns = [j \in 1..Len(d.columns) |-> replace(lower(d.columns[j]), " ", <<"_">>)]]

\* df['budget'] - df['actual'] raises on a repeated label or an object column
balance_raises(d) ==
    \/ col_count(d, <<"b","u","d","g","e","t">>) > 1
    \/ col_count(d, <<"a","c","t","u","a","l">>) > 1
    \/ is_object(column(d, <<"b","u","d","g","e","t">>))
    \/ is_object(column(d, <<"a","c","t","u","a","l">>))

add_balance(d) ==
    IF ~has_col(d, <<"b","a","l","a","n","c","e">>) /\ has_col(d, <<"b","u","d","g","e","t">>) /\ has_col(d, <<"a","c","t","u","a","l">>)
    THEN with_column(d, <<"b","a","l","a","n","c","e">>,
            [r \in 1..Len(d.rows) |-> fsub(column(d, <<"b","u","d","g","e","t">>)[r], column(d, <<"a","c","t","u","a","l">>)[r])])
    ELSE d

add_category(d) ==
    IF ~has_col(d, <<"c","a","t","e","g","o","r","y">>)
    THEN with_column(d, <<"c","a","t","e","g","o","r","y">>, [r \in 1..Len(d.rows) |-> Str(<<"G","e","n","e","r","a","l">>)])
    ELSE d

\* x < 0 raises on a str; the apply raises on a repeated label
type_raises(d) == col_count(d, <<"b","u","d","g","e","t">>) > 1 \/ is_object(column(d, <<"b","u","d","g","e","t">>))

\* 'Income' if x < 0 else 'Expenditure'
type_of_budget(x) == IF x.t = "num" /\ x.v < 0 THEN Str(<<"I","n","c","o","m","e">>) ELSE Str(<<"E","x","p","e","n","d","i","t","u","r","e">>)

add_type(d) ==
    IF ~has_col(d, <<"t","y","p","e">>) /\ has_col(d, <<"b","u","d","g","e","t">>)
    THEN with_column(d, <<"t","y","p","e">>, [r \in 1..Len(d.rows) |-> type_of_budget(column(d, <<"b","u","d","g","e","t">>)[r])])
    ELSE d

\* process_csv after pd.read_csv: the steps applied to the frame d
reconcile(d) ==
    LET m == _map_csv_columns(standardize(d))
        needs_balance == ~has_col(m.df, <<"b","a","l","a","n","c","e">>)
                         /\ has_col(m.df, <<"b","u","d","g","e","t">>) /\ has_col(m.df, <<"a","c","t","u","a","l">>)
        needs_type == ~has_col(m.df, <<"t","y","p","e">>) /\ has_col(m.df, <<"b","u","d","g","e","t">>)
    IN IF empty(m.df) THEN [df |-> m.df, missing |-> m.missing, raised |-> FALSE]
       ELSE IF (needs_balance /\ balance_raises(m.df)) \/ (needs_type /\ type_raises(m.df))
            THEN [df |-> EmptyDF, missing |-> <<>>, raised |-> TRUE]
       ELSE [df |-> add_type(add_category(add_balance(m.df))), missing |-> <<>>, raised |-> FALSE]

process_csv(csv) ==
    IF read_csv(csv).raised THEN [df |-> EmptyDF, missing |-> <<>>, raised |-> TRUE]
    ELSE reconcile(read_csv(csv).df)

(***************************************************************************)
(* The two regular expressions of _parse_financial_line, as re.search      *)
(* evaluates them: the leftmost start, and at every choice the first       *)
(* alternative in backtracking order from which the rest of the pattern    *)
(* still matches (greedy: the longest, lazy: the shortest).  A position is *)
(* the index of the next character; X_ends(L, p) are the positions where   *)
(* element X can end when it starts at p and the rest matches.             *)
(*   (\d{3,4}) \s+ ([^£]+?) \s+ (£[\d,.-]+) \s+ (£[\d,.-]+) \s+ (£?-?[\d,.-]+) *)
(*    code    sep0  descr   sep1  amount1   sep2  amount2   sep3  amount3  *)
(* The simple pattern is the same without code and sep0.                   *)
(***************************************************************************)
Max(S) == CHOOSE x \in S : \A y \in S : y <= x
Min(S) == CHOOSE x \in S : \A y \in S : x <= y

\* [\d,.-]
amount_char(c) == isdigit(c) \/ c \in {",", ".", "-"}

at(L, p, c) == p <= Len(L) /\ L[p] = c

amount_run_ends(L, p) == {q \in (p + 1)..(Len(L) + 1) : \A k \in p..(q - 1) : amount_char(L[k])}
space_run_ends(L, p) == {q \in (p + 1)..(Len(L) + 1) : \A k \in p..(q - 1) : isspace(L[k])}

\* £?-?[\d,.-]+ : the alternatives <<pound, minus>> in backtracking order
amount3_alternatives == << <<1, 1>>, <<1, 0>>, <<0, 1>>, <<0, 0>> >>

amount3_alt_ok(L, p, a) ==
    /\ (a[1] = 1 => at(L, p, "£"))
    /\ (a[2] = 1 => at(L, p + a[1], "-"))
    /\ amount_run_ends(L, p + a[1] + a[2]) # {}

amount3_ok(L, p) == \E i \in 1..4 : amount3_alt_ok(L, p, amount3_alternatives[i])

amount3_end(L, p) ==
    LET i == CHOOSE i \in 1..4 : /\ amount3_alt_ok(L, p, amount3_alternatives[i])
                                  /\ \A j \in 1..(i - 1) : ~amount3_alt_ok(L, p, amount3_alternatives[j])
        a == amount3_alternatives[i]
    IN Max(amount_run_ends(L, p + a[1] + a[2]))

sep3_ends(L, p) == {q \in space_run_ends(L, p) : amount3_ok(L, q)}

amount2_ends(L, p) == IF at(L, p, "£")
                      THEN {q \in amount_run_ends(L, p + 1) : sep3_ends(L, q) # {}}
                      ELSE {}

sep2_ends(L, p) == {q \in space_run_ends(L, p) : amount2_ends(L, q) # {}}

amount1_ends(L, p) == IF at(L, p, "£")
                      THEN {q \in amount_run_ends(L, p + 1) : sep2_ends(L, q) # {}}
                      ELSE {}

sep1_ends(L, p) == {q \in space_run_ends(L, p) : amount1_ends(L, q) # {}}

\* [^£]+?
descr_ends(L, p) == {q \in (p + 1)..(Len(L) + 1) :
                        /\ \A k \in p..(q - 1) : L[k] # "£"
                        /\ sep1_ends(L, q) # {}}

sep0_ends(L, p) == {q \in space_run_ends(L, p) : descr_ends(L, q) # {}}

\* \d{3,4}
code_ends(L, p) == {q \in {p + 3, p + 4} :
                       /\ q <= Len(L) + 1
                       /\ \A k \in p..(q - 1) : isdigit(L[k])
                       /\ sep0_ends(L, q) # {}}

\* the groups of the amounts, the description starting at p
tail_groups(L, p) ==
    LET p3 == Min(descr_ends(L, p))
        p4 == Max(sep1_ends(L, p3))
        p5 == Max(amount1_ends(L, p4))
        p6 == Max(sep2_ends(L, p5))
        p7 == Max(amount2_ends(L, p6))
        p8 == Max(sep3_ends(L, p7))
        p9 == amount3_end(L, p8)
    IN << SubSeq(L, p, p3 - 1), SubSeq(L, p4, p5 - 1), SubSeq(L, p6, p7 - 1), SubSeq(L, p8, p9 - 1) >>

\* re.search(pattern, line)
search_pattern(L) ==
    LET starts == {s \in 1..Len(L) : code_ends(L, s) # {}} IN
    IF starts = {} THEN [matched |-> FALSE]
    ELSE LET s == Min(starts)
             p1 == Max(code_ends(L, s))
             p2 == Max(sep0_ends(L, p1))
         IN [matched |-> TRUE, groups |-> <<SubSeq(L, s, p1 - 1)>> \o tail_groups(L, p2)]

\* re.search(simple_pattern, line)
search_simple_pattern(L) ==
    LET starts == {s \in 1..Len(L) : descr_ends(L, s) # {}} IN
    IF starts = {} THEN [matched |-> FALSE]
    ELSE [matched |-> TRUE, groups |-> tail_groups(L, Min(starts))]

(***************************************************************************)
(* FinancialDataProcessor: PDF line extraction                             *)
(***************************************************************************)
\* variant: the thousands separators are kept
_clean_currency_keeps_commas(amount_str) ==
    LET cleaned == strip(replace(amount_str, "£", <<>>)) IN
    IF float(cleaned).ok THEN float(cleaned).v ELSE 0

\* amounts are floats (hundredths); a ValueError gives 0.0
_clean_currency(amount_str) ==
    LET cleaned == strip(replace(replace(amount_str, "£", <<>>), ",", <<>>)) IN
    IF float(cleaned).ok THEN float(cleaned).v ELSE 0

type_of_category(category) == IF contains(category, <<"I","N","C","O","M","E">>) THEN <<"I","n","c","o","m","e">> ELSE <<"E","x","p","e","n","d","i","t","u","r","e">>

financial_item(code, description, category, budget, actual, balance) ==
    [code |-> code, description |-> description, category |-> category,
     budget_2025_26 |-> budget, actual_net |-> actual, balance |-> balance,
     type |-> type_of_category(category)]

\* the result is a sequence: <<>> for None, else the one item
_parse_financial_line(line, category) ==
    LET m == search_pattern(line)
        sm == search_simple_pattern(line)
    IN IF m.matched
       THEN << financial_item(strip(m.groups[1]), strip(m.groups[2]), category,
                              _clean_currency(m.groups[3]), _clean_currency(m.groups[4]),
                              _clean_currency(m.groups[5])) >>
       ELSE IF sm.matched /\ word_count(sm.groups[1]) <= 5
       THEN << financial_item(<<>>, strip(sm.groups[1]), category,
                              _clean_currency(sm.groups[2]), _clean_currency(sm.groups[3]),
                              _clean_currency(sm.groups[4])) >>
       ELSE <<>>

category_indicators ==
    << <<"I","N","C","O","M","E">>, <<"E","X","P","E","N","D","I","T","U","R","E">>, <<"A","d","m","i","n","i","s","t","r","a","t","i","o","n">>, <<"C","a","w","s","t","o","n"," ","C","o","m","m","u","n","i","t","y"," ","H","a","l","l">>,
       <<"P","a","r","k","s"," ","&"," ","O","p","e","n"," ","S","p","a","c","e","s">>, <<"S","e","c","t","i","o","n"," ","1","3","7">>, <<"T","o","t","a","l">> >>

_is_category_header(line) ==
    /\ \E i \in 1..Len(category_indicators) : contains(line, category_indicators[i])
    /\ ~\E k \in 1..Len(line) : isdigit(line[k])

\* the lines skipped as blank or boilerplate
skipped(line) == line = <<>> \/ contains(line, <<"B","a","l","a","n","c","e">>) \/ contains(line, <<"A","c","t","u","a","l"," ","N","e","t">>)

\* the loop of _parse_financial_text over the remaining lines
RECURSIVE parse_lines(_, _)
parse_lines(lines, current_category) ==
    IF lines = <<>> THEN <<>>
    ELSE LET line == strip(Head(lines)) IN
         IF skipped(line) THEN parse_lines(Tail(lines), current_category)
         ELSE IF _is_category_header(line) THEN parse_lines(Tail(lines), line)
         ELSE _parse_financial_line(line, current_category)
              \o parse_lines(Tail(lines), current_category)

_parse_financial_text(text) == parse_lines(split(text, "\n"), <<>>)

\* a pdf is [readable, pages]: pdfplumber raises on an unreadable file, and
\* a page without text is the empty text
RECURSIVE extract_pages(_)
extract_pages(pages) ==
    IF pages = <<>> THEN <<>>
    ELSE (IF Head(pages) # <<>> THEN _parse_financial_text(Head(pages)) ELSE <<>>)
         \o extract_pages(Tail(pages))

extract_pdf_tables(pdf) == IF pdf.readable THEN extract_pages(pdf.pages) ELSE <<>>

(***************************************************************************)
(* FinancialDataProcessor.create_dataframe                                 *)
(***************************************************************************)
pdf_columns == << <<"c","o","d","e">>, <<"d","e","s","c","r","i","p","t","i","o","n">>, <<"c","a","t","e","g","o","r","y">>, <<"b","u","d","g","e","t","_","2","0","2","5","_","2","6">>, <<"a","c","t","u","a","l","_","n","e","t">>,
                  <<"b","a","l","a","n","c","e">>, <<"t","y","p","e">> >>

item_row(item) == << Str(item.code), Str(item.description), Str(item.category),
                     Num(item.budget_2025_26), Num(item.actual_net), Num(item.balance),
                     Str(item.type) >>

\* str.contains('Total|Page', case=False, na=False)
is_total_line(cell) == cell.t = "str" /\ (contains(lower(cell.s), <<"t","o","t","a","l">>) \/ contains(lower(cell.s), <<"p","a","g","e">>))

\* rows[mask]: the rows whose flag is TRUE, in order
RECURSIVE select_rows(_, _)
select_rows(rows, mask) ==
    IF rows = <<>> THEN <<>>
    ELSE (IF Head(mask) THEN <<Head(rows)>> ELSE <<>>) \o select_rows(Tail(rows), Tail(mask))

\* pd.to_numeric(cell, errors='coerce') then fillna(0)
to_numeric(cell) == IF cell.t = "num" THEN cell
                    ELSE IF cell.t = "str" /\ cell.s # <<>> /\ float(cell.s).ok THEN Num(float(cell.s).v)
                    ELSE Num(0)

numeric_cols == << <<"b","u","d","g","e","t","_","2","0","2","5","_","2","6">>, <<"a","c","t","u","a","l","_","n","e","t">>, <<"b","a","l","a","n","c","e">> >>

create_dataframe(financial_data) ==
    LET d == [columns |-> pdf_columns,
              rows |-> [i \in 1..Len(financial_data) |-> item_row(financial_data[i])]]
        desc == col_index(d, <<"d","e","s","c","r","i","p","t","i","o","n">>)
        not_blank == select_rows(d.rows, [r \in 1..Len(d.rows) |-> d.rows[r][desc] # Str(<<>>)])
        kept == select_rows(not_blank, [r \in 1..Len(not_blank) |-> ~is_total_line(not_blank[r][desc])])
        is_numeric(j) == \E k \in 1..Len(numeric_cols) : numeric_cols[k] = d.columns[j]
    IN IF financial_data = <<>> THEN EmptyDF
       ELSE [columns |-> d.columns,
             rows |-> [r \in 1..Len(kept) |-> [j \in 1..Len(d.columns) |->
                         IF is_numeric(j) THEN to_numeric(kept[r][j]) ELSE kept[r][j]]]]

(***************************************************************************)
(* FinancialDataProcessor.get_summary_statistics.  A percentage n/d*100 is *)
(* kept as the fraction [n, d]; the guarded value 0 is [n |-> 0, d |-> 1]. *)
(* raised: the call ends in an exception (a missing or repeated label, an  *)
(* object column).                                                         *)
(***************************************************************************)
\* Series.sum(): missing values are skipped
RECURSIVE sum(_)
sum(cells) == IF cells = <<>> THEN 0
              ELSE (IF Head(cells).t = "num" THEN Head(cells).v ELSE 0) + sum(Tail(cells))

\* d[d['type'] == t][name]
cells_of_type(d, t, name) ==
    LET rows == select_rows(d.rows, [r \in 1..Len(d.rows) |-> d.rows[r][col_index(d, <<"t","y","p","e">>)] = Str(t)])
    IN [r \in 1..Len(rows) |-> rows[r][col_index(d, name)]]

\* variant: no guard against a zero whole
percentage_unguarded(part, whole) == [n |-> part * 100, d |-> whole]

percentage(part, whole) == IF whole # 0 THEN [n |-> part * 100, d |-> whole] ELSE [n |-> 0, d |-> 1]

budget_col(d) == IF has_col(d, <<"b","u","d","g","e","t","_","2","0","2","5","_","2","6">>) THEN <<"b","u","d","g","e","t","_","2","0","2","5","_","2","6">> ELSE <<"b","u","d","g","e","t">>
actual_col(d) == IF has_col(d, <<"a","c","t","u","a","l","_","n","e","t">>) THEN <<"a","c","t","u","a","l","_","n","e","t">> ELSE <<"a","c","t","u","a","l">>

summary_raises(d) ==
    \/ col_count(d, budget_col(d)) # 1
    \/ col_count(d, actual_col(d)) # 1
    \/ col_count(d, <<"t","y","p","e">>) # 1
    \/ is_object(column(d, budget_col(d)))
    \/ is_object(column(d, actual_col(d)))

total_budget(d) == sum(column(d, budget_col(d)))
total_actual(d) == sum(column(d, actual_col(d)))

EmptyStats == [kind |-> "empty"]

get_summary_statistics(d) ==
    IF empty(d) THEN [raised |-> FALSE, stats |-> EmptyStats]
    ELSE IF summary_raises(d) THEN [raised |-> TRUE, stats |-> EmptyStats]
    ELSE [raised |-> FALSE,
          stats |-> [kind |-> "stats",
                     total_budget |-> total_budget(d),
                     total_actual |-> total_actual(d),
                     total_variance |-> total_budget(d) - total_actual(d),
                     variance_percentage |-> percentage(total_budget(d) - total_actual(d), total_budget(d)),
                     income_budget |-> sum(cells_of_type(d, <<"I","n","c","o","m","e">>, budget_col(d))),
                     income_actual |-> sum(cells_of_type(d, <<"I","n","c","o","m","e">>, actual_col(d))),
                     expense_budget |-> sum(cells_of_type(d, <<"E","x","p","e","n","d","i","t","u","r","e">>, budget_col(d))),
                     expense_actual |-> sum(cells_of_type(d, <<"E","x","p","e","n","d","i","t","u","r","e">>, actual_col(d))),
                     completion_rate |-> percentage(total_actual(d), total_budget(d))]]

(***************************************************************************)
(* CSV files offered to process_csv: a header of column samples and up to  *)
(* MaxCsvRows rows.  A row is the base row of its header with at most one  *)
(* cell replaced by one of the column's alternative texts.                 *)
(***************************************************************************)
DescCol(name) == [name |-> name, base |-> <<"R","e","n","t">>, alts |-> {<<"T","o","t","a","l"," ","I","n","c","o","m","e">>, <<>>}]
BudgetCol(name) == [name |-> name, base |-> <<"1","0","0">>, alts |-> {<<"-","1","0","0">>, <<"0">>, <<>>, <<"a","b","c">>}]
ActualCol(name) == [name |-> name, base |-> <<"4","0">>, alts |-> {<<"1","2",".","5">>, <<>>}]
BalanceCol(name) == [name |-> name, base |-> <<"6","0">>, alts |-> {<<"7">>}]
CategoryCol(name) == [name |-> name, base |-> <<"A","d","m","i","n">>, alts |-> {}]
TypeCol(name) == [name |-> name, base |-> <<"I","n","c","o","m","e">>, alts |-> {<<"E","x","p","e","n","d","i","t","u","r","e">>, <<"G","r","a","n","t">>}]
OtherCol(name) == [name |-> name, base |-> <<"x">>, alts |-> {}]
SecondBudgetCol(name) == [name |-> name, base |-> <<"2","5","0">>, alts |-> {<<"-","2","5","0">>}]
SecondCategoryCol(name) == [name |-> name, base |-> <<"H","a","l","l">>, alts |-> {}]

CsvShapes ==
    { << DescCol(<<"I","t","e","m"," ","N","a","m","e">>), BudgetCol(<<"B","u","d","g","e","t","e","d">>), ActualCol(<<"S","p","e","n","t">>) >>,
      << OtherCol(<<"f","o","o">>), OtherCol(<<"b","a","r">>) >>,
      << DescCol(<<"D","e","s","c","r","i","p","t","i","o","n">>), BudgetCol(<<"B","u","d","g","e","t">>), ActualCol(<<"A","c","t","u","a","l">>) >>,
      << DescCol(<<"I","t","e","m">>), BudgetCol(<<"B","u","d","g","e","t","e","d">>), ActualCol(<<"S","p","e","n","t">>) >>,
      << DescCol(<<"D","e","s","c">>), BudgetCol(<<"P","l","a","n","n","e","d">>), ActualCol(<<"U","s","e","d">>), BalanceCol(<<"R","e","m","a","i","n","i","n","g">>) >>,
      << DescCol(<<"d","e","s","c","r","i","p","t","i","o","n">>), CategoryCol(<<"c","a","t","e","g","o","r","y">>), BudgetCol(<<"b","u","d","g","e","t">>),
         ActualCol(<<"a","c","t","u","a","l">>), TypeCol(<<"t","y","p","e">>) >>,
      << DescCol(<<"N","a","m","e">>), BudgetCol(<<"B","u","d","g","e","t"," ","2","0","2","5"," ","2","6">>), ActualCol(<<"A","c","t","u","a","l"," ","N","e","t">>),
         TypeCol(<<"T","y","p","e">>) >>,
      << DescCol(<<"D","e","s","c","r","i","p","t","i","o","n">>), CategoryCol(<<"C","a","t","e","g","o","r","y">>), BudgetCol(<<"B","u","d","g","e","t">>),
         ActualCol(<<"A","c","t","u","a","l">>), BalanceCol(<<"B","a","l","a","n","c","e">>), TypeCol(<<"T","y","p","e">>) >>,
      << DescCol(<<"D","e","t","a","i","l","s">>), BudgetCol(<<"A","l","l","o","c","a","t","i","o","n">>) >>,
      << DescCol(<<"I","t","e","m">>), SecondBudgetCol(<<"P","l","a","n","n","e","d">>), BudgetCol(<<"B","u","d","g","e","t","e","d">>),
         ActualCol(<<"S","p","e","n","t">>) >>,
      << DescCol(<<"D","e","s","c","r","i","p","t","i","o","n">>), BudgetCol(<<"B","u","d","g","e","t">>), ActualCol(<<"A","c","t","u","a","l">>),
         CategoryCol(<<"C","a","t","e","g","o","r","y">>), SecondCategoryCol(<<"c","a","t","e","g","o","r","y">>) >>,
      << >> }

ShapeHeader(shape) == [j \in 1..Len(shape) |-> shape[j].name]

ShapeRows(shape) ==
    { [j \in 1..Len(shape) |-> shape[j].base] }
    \cup { [j \in 1..Len(shape) |-> IF j = k THEN a ELSE shape[j].base] :
             <<k, a>> \in UNION { {k} \X shape[k].alts : k \in 1..Len(shape) } }

RECURSIVE SeqsUpTo(_, _)
SeqsUpTo(S, n) == IF n = 0 THEN {<<>>}
                  ELSE SeqsUpTo(S, n - 1)
                       \cup {Append(q, x) : <<q, x>> \in {q \in SeqsUpTo(S, n - 1) : Len(q) = n - 1} \X S}

CsvFiles(maxRows) ==
    UNION { { [header |-> ShapeHeader(shape), rows |-> rows] :
                rows \in SeqsUpTo(ShapeRows(shape), maxRows) } : shape \in CsvShapes }

(***************************************************************************)
(* Session state of the admin dashboard (st.session_state) and the record  *)
(* of the last call.                                                       *)
(***************************************************************************)
\* a session in which nobody has chosen an access mode or logged in
AuthInit ==
    /\ access_mode = None
    /\ admin_logged_in = None
    /\ admin_login_time = None
    /\ failed_login_attempts = 0
    /\ now = 0

SessionInit ==
    /\ df = EmptyDF
    /\ data_version = 0
    /\ summary_stats = EmptyStats
    /\ AuthInit

(***************************************************************************)
(* Specification of process_csv on its own: a file is chosen, then         *)
(* processed.                                                              *)
(***************************************************************************)
InitCsv ==
    /\ SessionInit
    /\ last \in { [op |-> "csv_file", csv |-> c] : c \in CsvFiles(MaxCsvRows) }

ProcessCsvCall ==
    /\ last.op = "csv_file"
    /\ last' = [op |-> "process_csv", csv |-> last.csv, out |-> process_csv(last.csv)]
    /\ UNCHANGED <<df, data_version, summary_stats, auth_vars>>

NextCsv == ProcessCsvCall

SpecCsv == InitCsv /\ [][NextCsv]_vars

(***************************************************************************)
(* Page texts offered to _parse_financial_text: an optional category       *)
(* header line, then one coded line                                        *)
(*   <code> <description> £<budget> £<actual> £<balance>                   *)
(* built from a code, a description and three amounts; an amount sample    *)
(* pairs the printed text with the number it denotes, in hundredths.       *)
(***************************************************************************)
LineCodes == { <<"4","0","0">>, <<"4","0","0","0">>, <<"1","0","7","6">> }

LineDescriptions == { <<"C","l","e","r","k","s"," ","S","a","l","a","r","y">>, <<"S","e","c","t","i","o","n"," ","1","3","7">>, <<"H","a","l","l"," ","2"," ","H","i","r","e">>, <<"T","o","t","a","l"," ","I","n","c","o","m","e">>,
                      <<"B","a","n","k"," ","B","a","l","a","n","c","e">> }

AmountSamples ==
    { [text |-> <<"4","2",",","1","3","4",".","0","0">>, value |-> 4213400],
      [text |-> <<"1","9",",","5","7","7",".","6","4">>, value |-> 1957764],
      [text |-> <<"2","2",",","5","5","6",".","3","6">>, value |-> 2255636],
      [text |-> <<"-","4","5",",","8","0","9",".","0","0">>, value |-> 0 - 4580900],
      [text |-> <<"9","0","0">>, value |-> 90000] }

HeaderLines == { <<>>, <<"E","X","P","E","N","D","I","T","U","R","E">>, <<"I","N","C","O","M","E">>, <<"P","a","r","k","s"," ","&"," ","O","p","e","n"," ","S","p","a","c","e","s">> }

CodedLine(code, description, amounts) ==
    code \o <<" ">> \o description \o <<" ","£">> \o amounts[1].text
         \o <<" ","£">> \o amounts[2].text \o <<" ","£">> \o amounts[3].text

PageOf(header, line) == IF header = <<>> THEN line ELSE header \o <<"\n">> \o line

InitLine ==
    /\ SessionInit
    /\ last \in { [op |-> "page_text", header |-> h, code |-> c, description |-> d, amounts |-> a,
                   line |-> CodedLine(c, d, a), text |-> PageOf(h, CodedLine(c, d, a))] :
                  <<h, c, d, a>> \in HeaderLines \X LineCodes \X LineDescriptions
                                     \X (AmountSamples \X AmountSamples \X AmountSamples) }

ParseTextCall ==
    /\ last.op = "page_text"
    /\ last' = [last EXCEPT !.op = "_parse_financial_text"] @@ [out |-> _parse_financial_text(last.text)]
    /\ UNCHANGED <<df, data_version, summary_stats, auth_vars>>

NextLine == ParseTextCall

SpecLine == InitLine /\ [][NextLine]_vars

(***************************************************************************)
(* utils.create_summary_sheet: the TOTAL row, one row per category and one *)
(* per type.  groupby sorts its keys and leaves out the rows without one;  *)
(* a quotient by zero is [n |-> sign, d |-> 0] (inf), 0/0 is NaN.          *)
(***************************************************************************)
CodePoints == <<" ","-","0","1","2","3","4","5","6","7","8","9","A","B","C","D","E","F","G","H","I","J","K","L","M","N","O","P","Q","R","S","T","U","V","W","X","Y","Z","_","a","b","c","d","e","f","g","h","i","j","k","l","m","n","o","p","q","r","s","t","u","v","w","x","y","z">>

\* a < b for two str
RECURSIVE str_less(_, _)
str_less(a, b) ==
    IF b = <<>> THEN FALSE
    ELSE IF a = <<>> THEN TRUE
    ELSE IF Head(a) # Head(b) THEN IndexOf(Head(a), CodePoints) < IndexOf(Head(b), CodePoints)
    ELSE str_less(Tail(a), Tail(b))

\* the keys of df.groupby(name), in the order of the groups
group_keys(d, name) ==
    LET keys == {d.rows[r][col_index(d, name)].s :
                   r \in {r \in 1..Len(d.rows) : d.rows[r][col_index(d, name)].t = "str"}}
    IN [i \in 1..Cardinality(keys) |->
          CHOOSE k \in keys : Cardinality({m \in keys : str_less(m, k)}) = i - 1]

\* the sum of column name over the rows of one group
group_sum(d, by, key, name) ==
    LET rows == select_rows(d.rows, [r \in 1..Len(d.rows) |-> d.rows[r][col_index(d, by)] = Str(key)])
    IN sum([r \in 1..Len(rows) |-> rows[r][col_index(d, name)]])

quotient(part, whole) ==
    IF whole # 0 THEN [n |-> part * 100, d |-> whole]
    ELSE IF part = 0 THEN NaN
    ELSE [n |-> IF part > 0 THEN 1 ELSE 0 - 1, d |-> 0]

\* (variance / budget * 100).fillna(0)
category_variance_pct(variance, whole) ==
    IF quotient(variance, whole) = NaN THEN [n |-> 0, d |-> 1] ELSE quotient(variance, whole)

sheet_raises(d) ==
    \/ col_count(d, budget_col(d)) # 1
    \/ col_count(d, actual_col(d)) # 1
    \/ is_object(column(d, budget_col(d)))
    \/ is_object(column(d, actual_col(d)))
    \/ col_count(d, <<"c","a","t","e","g","o","r","y">>) # 1
    \/ col_count(d, <<"t","y","p","e">>) # 1

\* variant: the variance of the TOTAL row is actual minus budget
total_row_spent_over(d) ==
    [Category |-> <<"T","O","T","A","L">>, Type |-> <<"A","l","l">>,
     Budget |-> total_budget(d), Actual |-> total_actual(d),
     Variance |-> total_actual(d) - total_budget(d),
     Variance_pct |-> percentage(total_actual(d) - total_budget(d), total_budget(d))]

total_row(d) ==
    [Category |-> <<"T","O","T","A","L">>, Type |-> <<"A","l","l">>,
     Budget |-> total_budget(d), Actual |-> total_actual(d),
     Variance |-> total_budget(d) - total_actual(d),
     Variance_pct |-> percentage(total_budget(d) - total_actual(d), total_budget(d))]

category_rows(d) ==
    [i \in 1..Len(group_keys(d, <<"c","a","t","e","g","o","r","y">>)) |->
       LET key == group_keys(d, <<"c","a","t","e","g","o","r","y">>)[i]
           budget == group_sum(d, <<"c","a","t","e","g","o","r","y">>, key, budget_col(d))
           actual == group_sum(d, <<"c","a","t","e","g","o","r","y">>, key, actual_col(d))
       IN [Category |-> key, Type |-> <<"C","a","t","e","g","o","r","y"," ","T","o","t","a","l">>, Budget |-> budget, Actual |-> actual,
           Variance |-> budget - actual, Variance_pct |-> category_variance_pct(budget - actual, budget)]]

type_rows(d) ==
    [i \in 1..Len(group_keys(d, <<"t","y","p","e">>)) |->
       LET key == group_keys(d, <<"t","y","p","e">>)[i]
           budget == group_sum(d, <<"t","y","p","e">>, key, budget_col(d))
           actual == group_sum(d, <<"t","y","p","e">>, key, actual_col(d))
       IN [Category |-> key, Type |-> <<"T","y","p","e"," ","T","o","t","a","l">>, Budget |-> budget, Actual |-> actual,
           Variance |-> budget - actual, Variance_pct |-> percentage(budget - actual, budget)]]

create_summary_sheet(d) ==
    IF sheet_raises(d) THEN [raised |-> TRUE, rows |-> <<>>]
    ELSE [raised |-> FALSE, rows |-> <<total_row(d)>> \o category_rows(d) \o type_rows(d)]

(***************************************************************************)
(* Coded lines whose third amount is negative, written with the symbol     *)
(* first (£-45,809.00) or with the minus first (-£45,809.00).              *)
(***************************************************************************)
NegativeAmounts == {a \in AmountSamples : a.value < 0}

SignStyles == {"symbol_first", "minus_first"}

\* the line with the minus sign of the third amount before the symbol
MinusFirstLine(code, description, amounts) ==
    code \o <<" ">> \o description \o <<" ","£">> \o amounts[1].text
         \o <<" ","£">> \o amounts[2].text \o <<" ","-","£">> \o Tail(amounts[3].text)

SignedLine(code, description, amounts, style) ==
    IF style = "minus_first" THEN MinusFirstLine(code, description, amounts)
    ELSE CodedLine(code, description, amounts)

InitSign ==
    /\ SessionInit
    /\ last \in { [op |-> "page_text", header |-> h, code |-> c, description |-> d, amounts |-> a,
                   style |-> s, line |-> SignedLine(c, d, a, s),
                   text |-> PageOf(h, SignedLine(c, d, a, s))] :
                  <<h, c, d, a, s>> \in HeaderLines \X LineCodes \X LineDescriptions
                                        \X (AmountSamples \X AmountSamples \X NegativeAmounts)
                                        \X SignStyles }

NextSign == ParseTextCall

SpecSign == InitSign /\ [][NextSign]_vars

(***************************************************************************)
(* Documents of up to MaxDocPages pages offered to extract_pdf_tables: a   *)
(* page holds a header, a line item, both, boilerplate or no text.         *)
(***************************************************************************)
DocumentPages ==
    { <<"I","N","C","O","M","E">>,
      <<"1","0","7","6"," ","P","r","e","c","e","p","t"," ","£","9","4",",","1","6","0",".","0","0"," ","£","4","8",",","3","5","1",".","0","0"," ","£","-","4","5",",","8","0","9",".","0","0">>,
      <<"E","X","P","E","N","D","I","T","U","R","E","\n","4","0","0","0"," ","C","l","e","r","k","s"," ","S","a","l","a","r","y"," ","£","4","2",",","1","3","4",".","0","0"," ","£","1","9",",","5","7","7",".","6","4"," ","£","2","2",",","5","5","6",".","3","6">>,
      <<"H","a","l","l"," ","H","i","r","e"," ","£","1","0",".","0","0"," ","£","5",".","0","0"," ","£","5",".","0","0","\n","A","d","m","i","n","i","s","t","r","a","t","i","o","n">>,
      <<"P","a","r","k","s"," ","&"," ","O","p","e","n"," ","S","p","a","c","e","s","\n","4","2","0","0"," ","G","r","a","s","s"," ","C","u","t","t","i","n","g"," ","£","9","0","0"," ","£","9","0","0"," ","£","0",".","0","0">>,
      <<"B","u","d","g","e","t"," ","A","c","t","u","a","l"," ","N","e","t"," ","B","a","l","a","n","c","e">>,
      <<"C","a","w","s","t","o","n"," ","P","a","r","i","s","h"," ","C","o","u","n","c","i","l">>,
      <<>> }

Documents == { [readable |-> TRUE, pages |-> ps] : ps \in SeqsUpTo(DocumentPages, MaxDocPages) }
             \cup { [readable |-> FALSE, pages |-> <<>>] }

InitDocument ==
    /\ SessionInit
    /\ last \in { [op |-> "pdf_file", pdf |-> pdf] : pdf \in Documents }

ExtractCall ==
    /\ last.op = "pdf_file"
    /\ last' = [op |-> "extract_pdf_tables", pdf |-> last.pdf, out |-> extract_pdf_tables(last.pdf)]
    /\ UNCHANGED <<df, data_version, summary_stats, auth_vars>>

NextDocument == ExtractCall

SpecDocument == InitDocument /\ [][NextDocument]_vars

(***************************************************************************)
(* Inputs of the session: PDF files of up to MaxPages pages, CSV files of  *)
(* at most one row, manual entry forms.                                    *)
(***************************************************************************)
PageTexts ==
    { <<"E","X","P","E","N","D","I","T","U","R","E","\n","4","0","0","0"," ","C","l","e","r","k","s"," ","S","a","l","a","r","y"," ","£","4","2",",","1","3","4",".","0","0"," ","£","1","9",",","5","7","7",".","6","4"," ","£","2","2",",","5","5","6",".","3","6">>,
      <<"I","N","C","O","M","E","\n","1","0","7","6"," ","P","r","e","c","e","p","t"," ","£","9","4",",","1","6","0",".","0","0"," ","£","4","8",",","3","5","1",".","0","0"," ","-","£","4","5",",","8","0","9",".","0","0">>,
      <<"T","o","t","a","l"," ","I","n","c","o","m","e"," ","£","1",".","0","0"," ","£","2",".","0","0"," ","£","3",".","0","0">>,
      <<"H","a","l","l"," ","H","i","r","e"," ","£","1","0",".","0","0"," ","£","5",".","0","0"," ","£","5",".","0","0","\n","P","a","g","e"," ","2"," ","o","f"," ","3">>,
      <<"C","a","w","s","t","o","n"," ","P","a","r","i","s","h"," ","C","o","u","n","c","i","l">>,
      <<>> }

PdfFiles == { [readable |-> TRUE, pages |-> ps] : ps \in SeqsUpTo(PageTexts, MaxPages) }
            \cup { [readable |-> FALSE, pages |-> <<>>] }

SessionCsvFiles == CsvFiles(1)

ManualEntries ==
    { [description |-> d, category |-> c, budget |-> b, actual |-> 4000, type |-> t] :
        <<d, c, b, t>> \in { <<"R","e","n","t">>, <<>> } \X { <<"A","d","m","i","n","i","s","t","r","a","t","i","o","n">>, <<"I","n","c","o","m","e">> } \X { 0, 10000 }
                           \X { <<"I","n","c","o","m","e">>, <<"E","x","p","e","n","d","i","t","u","r","e">> } }

\* the calls of the processor on the session's files, tabulated
pdf_tables == [pdf \in PdfFiles |-> extract_pdf_tables(pdf)]
csv_frames == [csv \in SessionCsvFiles |-> process_csv(csv).df]

(***************************************************************************)
(* The admin dashboard: one script run per user interaction.  Each handler *)
(* is followed by the main content area, which fills the summary cache     *)
(* when it is empty (show_summary).                                        *)
(***************************************************************************)
\* the summary_stats left by an assignment of get_summary_statistics(d): an
\* exception leaves the old value
stats_after(d, old) == IF get_summary_statistics(d).raised THEN old
                       ELSE get_summary_statistics(d).stats

\* show_admin_dashboard, main content area
show_summary(d, version, stats) ==
    IF ~empty(d) /\ (stats = EmptyStats \/ version = 0) THEN stats_after(d, stats) ELSE stats

\* pd.DataFrame of the manual entry form
new_entry(e) ==
    [columns |-> << <<"d","e","s","c","r","i","p","t","i","o","n">>, <<"c","a","t","e","g","o","r","y">>, <<"b","u","d","g","e","t">>, <<"a","c","t","u","a","l">>, <<"b","a","l","a","n","c","e">>, <<"t","y","p","e">> >>,
     rows |-> << << Str(e.description), Str(e.category), Num(e.budget), Num(e.actual),
                    Num(e.budget - e.actual), Str(e.type) >> >>]

has_repeated_label(d) == \E i, j \in 1..Len(d.columns) : i # j /\ d.columns[i] = d.columns[j]

\* pd.concat([a, b], ignore_index=True): the columns of a, then those only in
\* b; a cell without a value is NaN
concat(a, b) ==
    LET extra == not_in_columns(b.columns, a)
        cols == a.columns \o extra
        cell(d, row, name) == IF has_col(d, name) THEN row[col_index(d, name)] ELSE NaN
        widen(d) == [r \in 1..Len(d.rows) |-> [j \in 1..Len(cols) |-> cell(d, d.rows[r], cols[j])]]
    IN [columns |-> cols, rows |-> widen(a) \o widen(b)]

handle_pdf_upload(pdf) ==
    \E financial_data \in {pdf_tables[pdf]} :
    \E d \in {create_dataframe(financial_data)} :
    \E accepted \in {financial_data # <<>> /\ ~empty(d)} :
       /\ accepted => data_version < MaxVersion
       /\ df' = IF accepted THEN d ELSE df
       /\ data_version' = IF accepted THEN data_version + 1 ELSE data_version
       /\ summary_stats' = show_summary(df', data_version',
                                        IF accepted THEN stats_after(d, summary_stats)
                                        ELSE summary_stats)
       /\ last' = [op |-> "handle_pdf_upload", accepted |-> accepted]
       /\ UNCHANGED auth_vars

\* variant: the version is counted before the result is looked at
handle_csv_upload_counts_first(csv) ==
    \E d \in {csv_frames[csv]} :
    \E accepted \in {~empty(d)} :
       /\ data_version < MaxVersion
       /\ df' = IF accepted THEN d ELSE df
       /\ data_version' = data_version + 1
       /\ summary_stats' = show_summary(df', data_version',
                                        IF accepted THEN stats_after(d, summary_stats)
                                        ELSE summary_stats)
       /\ last' = [op |-> "handle_csv_upload", accepted |-> accepted]
       /\ UNCHANGED auth_vars

handle_csv_upload(csv) ==
    \E d \in {csv_frames[csv]} :
    \E accepted \in {~empty(d)} :
       /\ accepted => data_version < MaxVersion
       /\ df' = IF accepted THEN d ELSE df
       /\ data_version' = IF accepted THEN data_version + 1 ELSE data_version
       /\ summary_stats' = show_summary(df', data_version',
                                        IF accepted THEN stats_after(d, summary_stats)
                                        ELSE summary_stats)
       /\ last' = [op |-> "handle_csv_upload", accepted |-> accepted]
       /\ UNCHANGED auth_vars

\* a submitted form; an empty description, or a concat that raises, adds nothing
handle_manual_entry(e) ==
    \E accepted \in {e.description # <<>> /\ (empty(df) \/ ~has_repeated_label(df))} :
    \E d \in {IF empty(df) THEN new_entry(e) ELSE concat(df, new_entry(e))} :
       /\ accepted => (data_version < MaxVersion /\ Len(df.rows) < MaxDfRows)
       /\ df' = IF accepted THEN d ELSE df
       /\ data_version' = IF accepted THEN data_version + 1 ELSE data_version
       /\ summary_stats' = show_summary(df', data_version',
                                        IF accepted THEN stats_after(d, summary_stats)
                                        ELSE summary_stats)
       /\ last' = [op |-> "handle_manual_entry", accepted |-> accepted]
       /\ UNCHANGED auth_vars

(***************************************************************************)
(* show_data_table_tab: the filters, the data editor and Save Changes.     *)
(* An edit is none, the change of one cell, the removal of a row or a new  *)
(* row (all cells None).                                                   *)
(***************************************************************************)
filter_rows(d, name, value) ==
    [d EXCEPT !.rows = select_rows(d.rows,
        [r \in 1..Len(d.rows) |-> d.rows[r][col_index(d, name)] = Str(value)])]

filtered_df(d, category_filter, type_filter) ==
    LET by_category == IF category_filter # <<"A","l","l">> THEN filter_rows(d, <<"c","a","t","e","g","o","r","y">>, category_filter)
                       ELSE d
    IN IF type_filter # <<"A","l","l">> THEN filter_rows(by_category, <<"t","y","p","e">>, type_filter) ELSE by_category

data_editor(d, edit) ==
    CASE edit.kind = "none" -> d
      [] edit.kind = "set" ->
           [d EXCEPT !.rows[edit.row][col_index(d, edit.col)] = edit.value]
      [] edit.kind = "delete" ->
           [d EXCEPT !.rows = SubSeq(d.rows, 1, edit.row - 1) \o SubSeq(d.rows, edit.row + 1, Len(d.rows))]
      [] edit.kind = "add" ->
           [d EXCEPT !.rows = Append(d.rows, [j \in 1..Len(d.columns) |-> NaN])]

\* df['category'].unique()
categories(d) == {d.rows[r][col_index(d, <<"c","a","t","e","g","o","r","y">>)].s :
                    r \in {r \in 1..Len(d.rows) : d.rows[r][col_index(d, <<"c","a","t","e","g","o","r","y">>)].t = "str"}}

Filters(d) == { <<<<"A","l","l">>, <<"A","l","l">>>> }
              \cup { <<c, <<"A","l","l">>>> : c \in categories(d) }
              \cup { <<<<"A","l","l">>, t>> : t \in { <<"I","n","c","o","m","e">>, <<"E","x","p","e","n","d","i","t","u","r","e">> } }

CellEdits(d) == { [kind |-> "set", row |-> r, col |-> c, value |-> Num(0)] :
                    <<r, c>> \in (1..Len(d.rows)) \X {budget_col(d), actual_col(d)} }

RowEdits(d) == { [kind |-> "delete", row |-> r] : r \in 1..Len(d.rows) }
               \cup (IF Len(d.rows) < MaxDfRows THEN { [kind |-> "add"] } ELSE {})

save_changes(category_filter, type_filter, edit) ==
    \E edited_df \in {data_editor(filtered_df(df, category_filter, type_filter), edit)} :
       /\ data_version < MaxVersion
       /\ df' = edited_df
       /\ data_version' = data_version + 1
       /\ summary_stats' = show_summary(df', data_version', stats_after(edited_df, summary_stats))
       /\ last' = [op |-> "save_changes", accepted |-> TRUE,
                   category_filter |-> category_filter, type_filter |-> type_filter]
       /\ UNCHANGED auth_vars

\* the tab is shown when the dataset is not empty
show_data_table_tab ==
    /\ ~empty(df)
    /\ \E f \in Filters(df) :
         \E edit \in {[kind |-> "none"]} \cup CellEdits(filtered_df(df, f[1], f[2]))
                     \cup RowEdits(filtered_df(df, f[1], f[2])) :
            save_changes(f[1], f[2], edit)

Init == SessionInit /\ last = [op |-> "init", accepted |-> FALSE]

PdfUpload == \E pdf \in PdfFiles : handle_pdf_upload(pdf)
CsvUpload == \E csv \in SessionCsvFiles : handle_csv_upload(csv)
ManualEntry == \E e \in ManualEntries : handle_manual_entry(e)

Next == PdfUpload \/ CsvUpload \/ ManualEntry \/ show_data_table_tab

Spec == Init /\ [][Next]_vars

\* ingestion only: uploads and manual entries
NextIngest == PdfUpload \/ CsvUpload \/ ManualEntry

SpecIngest == Init /\ [][NextIngest]_vars

\* manual entries, and saves whose editor changed at most one budget or
\* actual cell
OperandValues == { Num(0), Num(5000) }

OperandEdits(d) == { [kind |-> "set", row |-> r, col |-> c, value |-> v] :
                       <<r, c, v>> \in (1..Len(d.rows)) \X {budget_col(d), actual_col(d)}
                                       \X OperandValues }

SaveOperandEdit ==
    /\ ~empty(df)
    /\ \E f \in Filters(df) :
         \E edit \in {[kind |-> "none"]} \cup OperandEdits(filtered_df(df, f[1], f[2])) :
            save_changes(f[1], f[2], edit)

NextEdit == ManualEntry \/ SaveOperandEdit

SpecEdit == Init /\ [][NextEdit]_vars

(***************************************************************************)
(* Specification of get_summary_statistics and create_summary_sheet on     *)
(* their own: a dataset of up to MaxDfRows line items, under the PDF or    *)
(* the CSV column names.                                                   *)
(***************************************************************************)
LineItems == { [budget |-> b, actual |-> a, type |-> t] :
                 <<b, a, t>> \in { 0 - 10000, 0, 10000 } \X { 0, 4000 }
                                 \X { <<"I","n","c","o","m","e">>, <<"E","x","p","e","n","d","i","t","u","r","e">> } }

DatasetOf(items, names) ==
    [columns |-> << <<"d","e","s","c","r","i","p","t","i","o","n">>, <<"c","a","t","e","g","o","r","y">>, names[1], names[2], <<"b","a","l","a","n","c","e">>, <<"t","y","p","e">> >>,
     rows |-> [i \in 1..Len(items) |->
                 << Str(<<"R","e","n","t">>), Str(<<"G","e","n","e","r","a","l">>), Num(items[i].budget), Num(items[i].actual),
                    Num(items[i].budget - items[i].actual), Str(items[i].type) >>]]

InitStats ==
    /\ SessionInit
    /\ last \in { [op |-> "dataset", items |-> items, d |-> DatasetOf(items, names)] :
                  <<items, names>> \in SeqsUpTo(LineItems, MaxDfRows)
                                       \X { << <<"b","u","d","g","e","t">>, <<"a","c","t","u","a","l">> >>,
                                            << <<"b","u","d","g","e","t","_","2","0","2","5","_","2","6">>, <<"a","c","t","u","a","l","_","n","e","t">> >> } }

SummaryCall ==
    /\ last.op = "dataset"
    /\ last' = [last EXCEPT !.op = "get_summary_statistics"]
               @@ [out |-> get_summary_statistics(last.d)]
    /\ UNCHANGED <<df, data_version, summary_stats, auth_vars>>

\* export_to_excel builds the summary sheet of a dataset that is not empty
SummarySheetCall ==
    /\ last.op = "dataset"
    /\ ~empty(last.d)
    /\ last' = [last EXCEPT !.op = "create_summary_sheet"]
               @@ [out |-> create_summary_sheet(last.d)]
    /\ UNCHANGED <<df, data_version, summary_stats, auth_vars>>

NextStats == SummaryCall \/ SummarySheetCall

SpecStats == InitStats /\ [][NextStats]_vars

(***************************************************************************)
(* Claims about process_csv.                                               *)
(***************************************************************************)
AliasSet(target) ==
    UNION { {column_mappings[t].names[k] : k \in 1..Len(column_mappings[t].names)} :
              t \in {t \in 1..Len(column_mappings) : column_mappings[t].target = target} }

NormalizedHeader(csv) == {replace(lower(csv.header[j]), " ", <<"_">>) : j \in 1..Len(csv.header)}

\* the essential names no column of the file is an alias of
Unmet(csv) == {essential_cols[e] : e \in {e \in 1..Len(essential_cols) :
                   NormalizedHeader(csv) \cap AliasSet(essential_cols[e]) = {}}}

\* C1: a file with header ["Item Name", "Budgeted", "Spent"] reconciles: the
\* result is non-empty and its description, budget and actual columns hold
\* the values of the Item Name, Budgeted and Spent columns.
C1_ItemNameHeaderReconciles ==
    (/\ last.op = "process_csv"
     /\ last.csv.header = << <<"I","t","e","m"," ","N","a","m","e">>, <<"B","u","d","g","e","t","e","d">>, <<"S","p","e","n","t">> >>
     /\ Len(last.csv.rows) > 0)
    => /\ ~empty(last.out.df)
       /\ has_col(last.out.df, <<"d","e","s","c","r","i","p","t","i","o","n">>)
       /\ has_col(last.out.df, <<"b","u","d","g","e","t">>)
       /\ has_col(last.out.df, <<"a","c","t","u","a","l">>)
       /\ column(last.out.df, <<"d","e","s","c","r","i","p","t","i","o","n">>) = column(read_csv(last.csv).df, <<"I","t","e","m"," ","N","a","m","e">>)
       /\ column(last.out.df, <<"b","u","d","g","e","t">>) = column(read_csv(last.csv).df, <<"B","u","d","g","e","t","e","d">>)
       /\ column(last.out.df, <<"a","c","t","u","a","l">>) = column(read_csv(last.csv).df, <<"S","p","e","n","t">>)

\* C2: when an essential column (description, budget, actual) is unmet after
\* alias matching, process_csv returns no dataset and the reported missing
\* list is exactly the unmet essential names; ["foo", "bar"] reports all three.
C2_UnmetEssentialRejected ==
    (last.op = "process_csv" /\ Len(last.csv.header) > 0 /\ Unmet(last.csv) # {})
    => /\ last.out.df = EmptyDF
       /\ {last.out.missing[i] : i \in 1..Len(last.out.missing)} = Unmet(last.csv)
       /\ Len(last.out.missing) = Cardinality(Unmet(last.csv))
       /\ (last.csv.header = << <<"f","o","o">>, <<"b","a","r">> >>
             => last.out.missing = << <<"d","e","s","c","r","i","p","t","i","o","n">>, <<"b","u","d","g","e","t">>, <<"a","c","t","u","a","l">> >>)

C2_Witness ==
    /\ last.op = "process_csv"
    /\ last.csv.header = << <<"f","o","o">>, <<"b","a","r">> >>
    /\ Len(last.csv.rows) > 0
    /\ last.out.df = EmptyDF
    /\ last.out.missing = << <<"d","e","s","c","r","i","p","t","i","o","n">>, <<"b","u","d","g","e","t">>, <<"a","c","t","u","a","l">> >>

\* C5: a file that reconciles and has no balance, remaining, variance or
\* difference column yields balance == budget - actual in every row, and a
\* category column.
C5_BalanceBackfilled ==
    (/\ last.op = "process_csv"
     /\ ~empty(last.out.df)
     /\ NormalizedHeader(last.csv) \cap AliasSet(<<"b","a","l","a","n","c","e">>) = {})
    => /\ has_col(last.out.df, <<"b","a","l","a","n","c","e">>)
       /\ has_col(last.out.df, <<"c","a","t","e","g","o","r","y">>)
       /\ \A r \in 1..Len(last.out.df.rows) :
             feq(column(last.out.df, <<"b","a","l","a","n","c","e">>)[r],
                 fsub(column(last.out.df, <<"b","u","d","g","e","t">>)[r], column(last.out.df, <<"a","c","t","u","a","l">>)[r]))

\* C4: a coded line "<code> <description> £<budget> £<actual> £<balance>" that
\* is not skipped as boilerplate yields exactly one record: the code, the
\* description, the three amounts in order without thousands separators, the
\* active category, and type Income iff the category contains "INCOME".
C4_CodedLineExtracted ==
    (last.op = "_parse_financial_text"
     /\ ~(contains(last.line, <<"B","a","l","a","n","c","e">>) \/ contains(last.line, <<"A","c","t","u","a","l"," ","N","e","t">>)))
    => last.out = << [code |-> last.code,
                      description |-> last.description,
                      category |-> last.header,
                      budget_2025_26 |-> last.amounts[1].value,
                      actual_net |-> last.amounts[2].value,
                      balance |-> last.amounts[3].value,
                      type |-> IF contains(last.header, <<"I","N","C","O","M","E">>)
                               THEN <<"I","n","c","o","m","e">> ELSE <<"E","x","p","e","n","d","i","t","u","r","e">>] >>

C4_Witness ==
    /\ last.op = "_parse_financial_text"
    /\ last.text = <<"E","X","P","E","N","D","I","T","U","R","E","\n","4","0","0","0"," ","C","l","e","r","k","s"," ","S","a","l","a","r","y"," ","£","4","2",",","1","3","4",".","0","0"," ","£","1","9",",","5","7","7",".","6","4"," ","£","2","2",",","5","5","6",".","3","6">>
    /\ last.out = << [code |-> <<"4","0","0","0">>, description |-> <<"C","l","e","r","k","s"," ","S","a","l","a","r","y">>,
                      category |-> <<"E","X","P","E","N","D","I","T","U","R","E">>, budget_2025_26 |-> 4213400,
                      actual_net |-> 1957764, balance |-> 2255636,
                      type |-> <<"E","x","p","e","n","d","i","t","u","r","e">>] >>

(***************************************************************************)
(* Claims about the session.                                               *)
(***************************************************************************)
Uploads == {"handle_pdf_upload", "handle_csv_upload"}

\* C3: a rejected upload (process_csv returns an empty dataset, or the PDF
\* yields no valid record) leaves df, data_version and summary_stats as they
\* were before the upload.
C3_RejectedUploadCommitsNothing ==
    [][(last'.op \in Uploads /\ ~last'.accepted)
          => UNCHANGED <<df, data_version, summary_stats>>]_vars

C3_Witness ==
    /\ last.op = "handle_csv_upload"
    /\ ~last.accepted
    /\ ~empty(df)
    /\ data_version > 0
    /\ summary_stats # EmptyStats

\* C6: from a dataset whose rows all have balance == budget - actual, manual
\* entries and saves that change only budget or actual cells keep
\* balance == budget - actual in every row.
C6_BalanceFollowsOperands ==
    (has_col(df, <<"b","a","l","a","n","c","e">>) /\ has_col(df, <<"b","u","d","g","e","t">>) /\ has_col(df, <<"a","c","t","u","a","l">>))
    => \A r \in 1..Len(df.rows) :
          feq(column(df, <<"b","a","l","a","n","c","e">>)[r], fsub(column(df, <<"b","u","d","g","e","t">>)[r], column(df, <<"a","c","t","u","a","l">>)[r]))

NumericNames == { <<"b","u","d","g","e","t">>, <<"b","u","d","g","e","t","_","2","0","2","5","_","2","6">>, <<"a","c","t","u","a","l">>, <<"a","c","t","u","a","l","_","n","e","t">>, <<"b","a","l","a","n","c","e">> }

\* C7: after a successful PDF or CSV upload no row of the session dataset has
\* a missing (NaN) budget, actual or balance.
C7_NoNaNAfterUpload ==
    (last.op \in Uploads /\ last.accepted)
    => \A name \in {n \in NumericNames : has_col(df, n)} :
          \A r \in 1..Len(df.rows) : column(df, name)[r].t = "num"

\* C8: after a successful PDF or CSV upload no row of the session dataset has
\* an empty description or one containing "total" or "page" in any case.
C8_NoNoiseRowsAfterUpload ==
    (last.op \in Uploads /\ last.accepted)
    => \A r \in 1..Len(df.rows) :
          LET cell == column(df, <<"d","e","s","c","r","i","p","t","i","o","n">>)[r] IN
          cell.t = "str" => /\ cell.s # <<>>
                            /\ ~contains(lower(cell.s), <<"t","o","t","a","l">>)
                            /\ ~contains(lower(cell.s), <<"p","a","g","e">>)

\* C9: every row of a dataset reached by uploads and manual entries has type
\* Income or Expenditure, so income and expense sums add up to the totals.
C9_EveryRowIncomeOrExpenditure ==
    ~empty(df)
    => /\ \A r \in 1..Len(df.rows) :
             column(df, <<"t","y","p","e">>)[r] \in { Str(<<"I","n","c","o","m","e">>), Str(<<"E","x","p","e","n","d","i","t","u","r","e">>) }
       /\ LET s == get_summary_statistics(df) IN
          ~s.raised => /\ s.stats.income_budget + s.stats.expense_budget = s.stats.total_budget
                       /\ s.stats.income_actual + s.stats.expense_actual = s.stats.total_actual

(***************************************************************************)
(* Claims about get_summary_statistics.                                    *)
(***************************************************************************)
RECURSIVE SumOver(_, _)
SumOver(S, f) == IF S = {} THEN 0
                 ELSE LET i == CHOOSE i \in S : TRUE IN f[i] + SumOver(S \ {i}, f)

\* C10: for a non-empty dataset total_budget and total_actual are the sums
\* over all rows, total_variance == total_budget - total_actual, and with
\* total_budget == 0 both variance_percentage and completion_rate are 0,
\* without a division by zero.
C10_TotalsAndZeroGuard ==
    (last.op = "get_summary_statistics" /\ Len(last.items) > 0)
    => LET rows == 1..Len(last.items)
           tb == SumOver(rows, [i \in rows |-> last.items[i].budget])
           ta == SumOver(rows, [i \in rows |-> last.items[i].actual])
           s == last.out.stats
       IN /\ ~last.out.raised
          /\ s.kind = "stats"
          /\ s.total_budget = tb
          /\ s.total_actual = ta
          /\ s.total_variance = tb - ta
          /\ s.variance_percentage.d # 0
          /\ s.completion_rate.d # 0
          /\ (tb = 0 => s.variance_percentage.n = 0 /\ s.completion_rate.n = 0)

C10_Witness ==
    /\ last.op = "get_summary_statistics"
    /\ Len(last.items) > 1
    /\ last.out.stats.kind = "stats"
    /\ last.out.stats.total_budget = 0
    /\ last.out.stats.total_actual > 0
    /\ last.out.stats.completion_rate.n = 0

(***************************************************************************)
(* The probability engine.  Its derived columns hold quotients, so a       *)
(* derived cell is Rat(n, d), the exact number n/d in lowest terms with    *)
(* d > 0 (amounts stay in hundredths), Inf(s), the float infinity of sign  *)
(* s, or NaN.  Arithmetic is exact: float rounding is not modelled.        *)
(***************************************************************************)
MaxMonths == 2
MaxSimulations == 5

sign(n) == IF n > 0 THEN 1 ELSE IF n < 0 THEN 0 - 1 ELSE 0
magnitude(n) == IF n < 0 THEN 0 - n ELSE n

RECURSIVE gcd(_, _)
gcd(a, b) == IF b = 0 THEN a ELSE gcd(b, a % b)

Rat(n, d) == [t |-> "rat",
              n |-> (sign(d) * n) \div gcd(magnitude(n), magnitude(d)),
              d |-> magnitude(d) \div gcd(magnitude(n), magnitude(d))]
Inf(s) == [t |-> "inf", s |-> s]

\* a float cell as a derived cell
as_float(c) == IF c.t = "num" THEN Rat(c.v, 1)
               ELSE IF c.t \in {"rat", "inf"} THEN c
               ELSE NaN

\* a - b, a + b, a * b, a / b on floats (str operands are excluded by the callers)
minus(a, b) ==
    LET x == as_float(a)
        y == as_float(b)
    IN IF x.t = "nan" \/ y.t = "nan" THEN NaN
       ELSE IF x.t = "inf" THEN (IF y.t = "inf" /\ y.s = x.s THEN NaN ELSE x)
       ELSE IF y.t = "inf" THEN Inf(0 - y.s)
       ELSE Rat(x.n * y.d - y.n * x.d, x.d * y.d)

plus(a, b) ==
    LET x == as_float(a)
        y == as_float(b)
    IN IF x.t = "nan" \/ y.t = "nan" THEN NaN
       ELSE IF x.t = "inf" THEN (IF y.t = "inf" /\ y.s # x.s THEN NaN ELSE x)
       ELSE IF y.t = "inf" THEN y
       ELSE Rat(x.n * y.d + y.n * x.d, x.d * y.d)

times(a, b) ==
    LET x == as_float(a)
        y == as_float(b)
        sx == IF x.t = "inf" THEN x.s ELSE sign(x.n)
        sy == IF y.t = "inf" THEN y.s ELSE sign(y.n)
    IN IF x.t = "nan" \/ y.t = "nan" THEN NaN
       ELSE IF x.t = "inf" \/ y.t = "inf" THEN (IF sx * sy = 0 THEN NaN ELSE Inf(sx * sy))
       ELSE Rat(x.n * y.n, x.d * y.d)

\* pandas / numpy division: x / 0 is inf, -inf or (0 / 0) NaN
over(a, b) ==
    LET x == as_float(a)
        y == as_float(b)
    IN IF x.t = "nan" \/ y.t = "nan" THEN NaN
       ELSE IF y.t = "inf" THEN (IF x.t = "inf" THEN NaN ELSE Rat(0, 1))
       ELSE IF x.t = "inf" THEN Inf(IF y.n < 0 THEN 0 - x.s ELSE x.s)
       ELSE IF y.n = 0 THEN (IF x.n = 0 THEN NaN ELSE Inf(sign(x.n)))
       ELSE Rat(x.n * y.d, x.d * y.n)

\* abs(a)
absolute(a) ==
    LET x == as_float(a)
    IN IF x.t = "nan" THEN NaN
       ELSE IF x.t = "inf" THEN Inf(1)
       ELSE Rat(magnitude(x.n), x.d)

\* a <= b on floats: a comparison with NaN is False
le(a, b) ==
    LET x == as_float(a)
        y == as_float(b)
    IN /\ x.t # "nan" /\ y.t # "nan"
       /\ IF x.t = "inf" THEN (x.s < 0 \/ (y.t = "inf" /\ y.s > 0))
          ELSE IF y.t = "inf" THEN y.s > 0
          ELSE x.n * y.d <= y.n * x.d

\* Series.fillna(value)
fillna(a, value) == IF as_float(a).t = "nan" THEN value ELSE as_float(a)

\* np.clip(a, lo, hi): a NaN stays NaN
clip(a, lo, hi) ==
    IF as_float(a).t = "nan" THEN NaN
    ELSE IF le(a, lo) THEN as_float(lo)
    ELSE IF le(hi, a) THEN as_float(hi)
    ELSE as_float(a)

\* a plain number, not an amount in hundredths
Number(n) == Rat(n, 1)

(***************************************************************************)
(* ProbabilityEngine.  Every operation returns [raised, result, df]: df is  *)
(* the caller's dataset as the call leaves it.  An operation writes its    *)
(* columns to the object it works on; the caller's dataset takes the       *)
(* writes when that object is the caller's own (alias).                    *)
(***************************************************************************)
\* variant: the object worked on is the caller's
copy_by_reference(d) == [frame |-> d, alias |-> TRUE]

\* DataFrame.copy(): a new object with the contents of d
copy(d) == [frame |-> d, alias |-> FALSE]

\* the caller's dataset after the writes that made `written` of the object obj
after_writes(d, obj, written) == IF obj.alias THEN written ELSE d

\* df[budget_col] and df[actual_col] raise KeyError when the column is missing,
\* and their arithmetic raises TypeError on a str
operands_raise(d) ==
    \/ col_count(d, budget_col(d)) # 1
    \/ col_count(d, actual_col(d)) # 1
    \/ is_object(column(d, budget_col(d)))
    \/ is_object(column(d, actual_col(d)))

\* probabilities.get(category, 100) / 100; a NaN category is no key of the map
probability_factor_default_zero(probabilities, category) ==
    IF category.t = "str" /\ category.s \in DOMAIN probabilities
    THEN over(probabilities[category.s], Number(100))
    ELSE over(Number(0), Number(100))

probability_factor(probabilities, category) ==
    IF category.t = "str" /\ category.s \in DOMAIN probabilities
    THEN over(probabilities[category.s], Number(100))
    ELSE over(Number(100), Number(100))

scenario_columns == << <<"p","r","o","b","a","b","i","l","i","t","y","_","f","a","c","t","o","r">>, <<"r","e","m","a","i","n","i","n","g","_","b","u","d","g","e","t">>, <<"p","r","o","j","e","c","t","e","d","_","r","e","m","a","i","n","i","n","g">>,
                       <<"p","r","o","j","e","c","t","e","d","_","t","o","t","a","l">>, <<"p","r","o","j","e","c","t","e","d","_","v","a","r","i","a","n","c","e">> >>

\* variant: the projected total is the probability share of the budget
scenario_row_share_of_budget(d, row, probabilities) ==
    LET budget == row[col_index(d, budget_col(d))]
        actual == row[col_index(d, actual_col(d))]
        factor == probability_factor(probabilities, row[col_index(d, <<"c","a","t","e","g","o","r","y">>)])
        remaining_budget == minus(budget, actual)
        projected_remaining == times(remaining_budget, factor)
        projected_total == plus(actual, times(budget, factor))
        projected_variance == minus(budget, projected_total)
    IN row \o << factor, remaining_budget, projected_remaining, projected_total, projected_variance >>

\* the five columns added to one row
scenario_row(d, row, probabilities) ==
    LET budget == row[col_index(d, budget_col(d))]
        actual == row[col_index(d, actual_col(d))]
        factor == probability_factor(probabilities, row[col_index(d, <<"c","a","t","e","g","o","r","y">>)])
        remaining_budget == minus(budget, actual)
        projected_remaining == times(remaining_budget, factor)
        projected_total == plus(actual, projected_remaining)
        projected_variance == minus(budget, projected_total)
    IN row \o << factor, remaining_budget, projected_remaining, projected_total, projected_variance >>

apply_probability_scenario(d, probabilities) ==
    IF operands_raise(d) \/ col_count(d, <<"c","a","t","e","g","o","r","y">>) # 1
    THEN [raised |-> TRUE, result |-> EmptyDF, df |-> d]
    ELSE LET df_scenario == copy(d)
             written == [columns |-> df_scenario.frame.columns \o scenario_columns,
                         rows |-> [r \in 1..Len(df_scenario.frame.rows) |->
                                     scenario_row(d, df_scenario.frame.rows[r], probabilities)]]
         IN [raised |-> FALSE, result |-> written, df |-> after_writes(d, df_scenario, written)]

\* categorize_risk: the thresholds in percent
LowRiskLimit == 5
MediumRiskLimit == 15
HighRiskLimit == 30

\* variant: the thresholds are exclusive
categorize_risk_exclusive(variance_pct, budget_amount) ==
    LET abs_variance == absolute(variance_pct)
    IN IF budget_amount.t = "num" /\ budget_amount.v = 0 THEN <<"N","o"," ","B","u","d","g","e","t">>
       ELSE IF le(abs_variance, Number(LowRiskLimit)) /\ abs_variance # Number(LowRiskLimit)
            THEN <<"L","o","w"," ","R","i","s","k">>
       ELSE IF le(abs_variance, Number(MediumRiskLimit)) /\ abs_variance # Number(MediumRiskLimit)
            THEN <<"M","e","d","i","u","m"," ","R","i","s","k">>
       ELSE IF le(abs_variance, Number(HighRiskLimit)) /\ abs_variance # Number(HighRiskLimit)
            THEN <<"H","i","g","h"," ","R","i","s","k">>
       ELSE <<"C","r","i","t","i","c","a","l"," ","R","i","s","k">>

categorize_risk(variance_pct, budget_amount) ==
    LET abs_variance == absolute(variance_pct)
    IN IF budget_amount.t = "num" /\ budget_amount.v = 0 THEN <<"N","o"," ","B","u","d","g","e","t">>
       ELSE IF le(abs_variance, Number(LowRiskLimit)) THEN <<"L","o","w"," ","R","i","s","k">>
       ELSE IF le(abs_variance, Number(MediumRiskLimit)) THEN <<"M","e","d","i","u","m"," ","R","i","s","k">>
       ELSE IF le(abs_variance, Number(HighRiskLimit)) THEN <<"H","i","g","h"," ","R","i","s","k">>
       ELSE <<"C","r","i","t","i","c","a","l"," ","R","i","s","k">>

\* ((budget - actual) / budget * 100).fillna(0)
variance_pct_of(budget, actual) ==
    fillna(times(over(minus(budget, actual), budget), Number(100)), Number(0))

\* variant: the score is not clipped
risk_score_unclipped(variance_pct) == times(absolute(variance_pct), Number(2))

\* np.clip(abs(variance_pct) * 2, 0, 100)
risk_score(variance_pct) == clip(times(absolute(variance_pct), Number(2)), Number(0), Number(100))

risk_columns == << <<"v","a","r","i","a","n","c","e","_","p","c","t">>, <<"r","i","s","k","_","c","a","t","e","g","o","r","y">>, <<"r","i","s","k","_","s","c","o","r","e">> >>

risk_row(d, row) ==
    LET budget == row[col_index(d, budget_col(d))]
        actual == row[col_index(d, actual_col(d))]
        variance_pct == variance_pct_of(budget, actual)
    IN row \o << variance_pct, Str(categorize_risk(variance_pct, budget)), risk_score(variance_pct) >>

calculate_risk_assessment(d) ==
    IF operands_raise(d)
    THEN [raised |-> TRUE, result |-> EmptyDF, df |-> d]
    ELSE LET df_risk == copy(d)
             written == [columns |-> df_risk.frame.columns \o risk_columns,
                         rows |-> [r \in 1..Len(df_risk.frame.rows) |->
                                     risk_row(d, df_risk.frame.rows[r])]]
         IN [raised |-> FALSE, result |-> written, df |-> after_writes(d, df_risk, written)]

\* months_elapsed = 5
months_elapsed == 5

projection_columns == << <<"d","e","s","c","r","i","p","t","i","o","n">>, <<"c","a","t","e","g","o","r","y">>, <<"m","o","n","t","h">>, <<"m","o","n","t","h","l","y","_","p","r","o","j","e","c","t","e","d">>,
                         <<"c","u","m","u","l","a","t","i","v","e","_","p","r","o","j","e","c","t","e","d">>, <<"b","u","d","g","e","t">>, <<"r","e","m","a","i","n","i","n","g","_","b","u","d","g","e","t">> >>

\* variant: the accumulation starts from nothing
RECURSIVE cumulative_from_zero(_, _, _)
cumulative_from_zero(actual, monthly_actual, month) ==
    IF month = 0 THEN Number(0)
    ELSE plus(cumulative_from_zero(actual, monthly_actual, month - 1), monthly_actual)

\* cumulative_projected after `month` rounds of cumulative_projected += monthly_actual
RECURSIVE cumulative_projected(_, _, _)
cumulative_projected(actual, monthly_actual, month) ==
    IF month = 0 THEN as_float(actual)
    ELSE plus(cumulative_projected(actual, monthly_actual, month - 1), monthly_actual)

\* the rows appended for one item
item_projections(d, row, months_ahead) ==
    LET budget == row[col_index(d, budget_col(d))]
        actual == row[col_index(d, actual_col(d))]
        monthly_actual == IF months_elapsed > 0 THEN over(actual, Number(months_elapsed))
                          ELSE Number(0)
    IN [month \in 1..months_ahead |->
          << row[col_index(d, <<"d","e","s","c","r","i","p","t","i","o","n">>)], row[col_index(d, <<"c","a","t","e","g","o","r","y">>)], Number(month),
             monthly_actual, cumulative_projected(actual, monthly_actual, month), budget,
             minus(budget, cumulative_projected(actual, monthly_actual, month)) >>]

RECURSIVE projections(_, _, _)
projections(d, rows, months_ahead) ==
    IF rows = <<>> THEN <<>>
    ELSE item_projections(d, Head(rows), months_ahead) \o projections(d, Tail(rows), months_ahead)

\* a row lookup raises KeyError on a missing column, a str amount TypeError
projection_raises(d, months_ahead) ==
    /\ Len(d.rows) > 0
    /\ \/ ~has_col(d, budget_col(d))
       \/ ~has_col(d, actual_col(d))
       \/ is_object(column(d, budget_col(d)))
       \/ is_object(column(d, actual_col(d)))
       \/ (months_ahead > 0 /\ (~has_col(d, <<"d","e","s","c","r","i","p","t","i","o","n">>) \/ ~has_col(d, <<"c","a","t","e","g","o","r","y">>)))

\* pd.DataFrame(projections): no projections, no columns
generate_cash_flow_projection(d, months_ahead) ==
    IF projection_raises(d, months_ahead) THEN [raised |-> TRUE, result |-> EmptyDF, df |-> d]
    ELSE IF projections(d, d.rows, months_ahead) = <<>>
         THEN [raised |-> FALSE, result |-> EmptyDF, df |-> d]
    ELSE [raised |-> FALSE,
          result |-> [columns |-> projection_columns, rows |-> projections(d, d.rows, months_ahead)],
          df |-> d]

(***************************************************************************)
(* Monte Carlo.  np.random.normal is a choice of the caller: `normal`      *)
(* gives, for every trial, the number drawn for each category.             *)
(***************************************************************************)
\* df['category'].unique()
unique_categories(d) ==
    {d.rows[r][col_index(d, <<"c","a","t","e","g","o","r","y">>)].s :
       r \in {r \in 1..Len(d.rows) : d.rows[r][col_index(d, <<"c","a","t","e","g","o","r","y">>)].t = "str"}}

\* variant: the draw is used as it comes
trial_probability_unclipped(prob) == as_float(prob)

\* np.clip(prob, 10, 100)
trial_probability(prob) == clip(prob, Number(10), Number(100))

random_probs(d, drawn) == [category \in unique_categories(d) |-> trial_probability(drawn[category])]

\* Series.sum(): NaN is skipped
RECURSIVE total(_)
total(cells) == IF cells = <<>> THEN Number(0)
                ELSE IF as_float(Head(cells)).t = "nan" THEN total(Tail(cells))
                ELSE plus(Head(cells), total(Tail(cells)))

\* scenario_df['projected_variance'].sum() of one trial
trial_variance(d, drawn) ==
    total(column(apply_probability_scenario(d, random_probs(d, drawn)).result, <<"p","r","o","j","e","c","t","e","d","_","v","a","r","i","a","n","c","e">>))

\* the sorted copy of an array
RECURSIVE insert_sorted(_, _)
insert_sorted(x, xs) == IF xs = <<>> THEN << x >>
                        ELSE IF le(x, Head(xs)) THEN << x >> \o xs
                        ELSE << Head(xs) >> \o insert_sorted(x, Tail(xs))

RECURSIVE sorted(_)
sorted(xs) == IF xs = <<>> THEN <<>> ELSE insert_sorted(Head(xs), sorted(Tail(xs)))

\* variant: the array is ranked as it comes
percentile_unsorted(results, q) ==
    LET ranked == results
        position == q * (Len(results) - 1)
        below == position \div 100 + 1
        above == IF below < Len(results) THEN below + 1 ELSE below
    IN plus(ranked[below],
            times(minus(ranked[above], ranked[below]), Rat(position % 100, 100)))

\* np.percentile(results, q): linear interpolation between the two nearest ranks
percentile(results, q) ==
    LET ranked == sorted(results)
        position == q * (Len(results) - 1)
        below == position \div 100 + 1
        above == IF below < Len(results) THEN below + 1 ELSE below
    IN plus(ranked[below],
            times(minus(ranked[above], ranked[below]), Rat(position % 100, 100)))

\* np.sum(results > 0) / len(results) * 100
probability_positive(results) ==
    times(over(Number(Cardinality({i \in 1..Len(results) :
                                     ~le(results[i], Number(0)) /\ as_float(results[i]).t # "nan"})),
               Number(Len(results))),
          Number(100))

\* np.mean(results)
RECURSIVE array_sum(_)
array_sum(xs) == IF xs = <<>> THEN Number(0) ELSE plus(Head(xs), array_sum(Tail(xs)))

mean(results) == over(array_sum(results), Number(Len(results)))

\* std_variance, a square root, is left out of the result
calculate_monte_carlo_simulation(d, simulations, normal) ==
    IF simulations > 0 /\ (col_count(d, <<"c","a","t","e","g","o","r","y">>) # 1 \/ operands_raise(d))
    THEN [raised |-> TRUE, result |-> [all_results |-> <<>>], df |-> d]
    ELSE LET scenario_df == copy(d)
             results == [i \in 1..simulations |-> trial_variance(scenario_df.frame, normal[i])]
         IN [raised |-> FALSE,
             result |-> [mean_variance |-> mean(results),
                         percentile_5 |-> percentile(results, 5),
                         percentile_25 |-> percentile(results, 25),
                         percentile_75 |-> percentile(results, 75),
                         percentile_95 |-> percentile(results, 95),
                         probability_positive |-> probability_positive(results),
                         all_results |-> results],
             df |-> after_writes(d, scenario_df,
                                 apply_probability_scenario(scenario_df.frame,
                                                            random_probs(d, normal[simulations])).df)]

\* FinancialDataAccess.get_data: the object handed to the caller
get_data(session_df) == IF ~empty(session_df) THEN copy(session_df) ELSE copy(EmptyDF)

(***************************************************************************)
(* Specification of the engine on its own: a dataset of up to MaxDfRows    *)
(* line items, or the empty dataset pd.DataFrame(), on which the           *)
(* one operation is called.  The session's df holds the dataset; a call    *)
(* leaves in it what it leaves in its argument.                            *)
(***************************************************************************)
EngineAmounts ==
    { <<10000, 10000>>, <<10000, 9500>>, <<10000, 9400>>, <<10000, 8500>>, <<10000, 7000>>,
      <<10000, 6900>>, <<10000, 5000>>, <<10000, 4000>>, <<10000, 12000>>,
      <<0 - 10000, 4000>>, <<0, 0>>, <<0, 4000>>, <<0, 0 - 4000>> }

EngineItems ==
    { [budget |-> p[1], actual |-> p[2], category |-> <<"A","d","m","i","n","i","s","t","r","a","t","i","o","n">>] : p \in EngineAmounts }
    \cup { [budget |-> p[1], actual |-> p[2], category |-> <<"I","n","c","o","m","e">>] :
             p \in { <<10000, 4000>>, <<10000, 12000>>, <<0, 4000>> } }

EngineDatasetOf(items, names) ==
    [columns |-> << <<"d","e","s","c","r","i","p","t","i","o","n">>, <<"c","a","t","e","g","o","r","y">>, names[1], names[2], <<"b","a","l","a","n","c","e">>, <<"t","y","p","e">> >>,
     rows |-> [i \in 1..Len(items) |->
                 << Str(<<"R","e","n","t">>), Str(items[i].category), Num(items[i].budget),
                    Num(items[i].actual), Num(items[i].budget - items[i].actual),
                    Str(<<"E","x","p","e","n","d","i","t","u","r","e">>) >>]]

ColumnNamings == { << <<"b","u","d","g","e","t">>, <<"a","c","t","u","a","l">> >>, << <<"b","u","d","g","e","t","_","2","0","2","5","_","2","6">>, <<"a","c","t","u","a","l","_","n","e","t">> >> }

EngineDatasets ==
    { EmptyDF }
    \cup { EngineDatasetOf(items, names) :
             <<items, names>> \in (SeqsUpTo(EngineItems, MaxDfRows) \ { <<>> }) \X ColumnNamings }

\* probability maps of the scenario sliders
ProbabilityMaps ==
    { [category \in {} |-> Number(100)],
      [category \in { <<"A","d","m","i","n","i","s","t","r","a","t","i","o","n">> } |-> Number(50)],
      [category \in { <<"A","d","m","i","n","i","s","t","r","a","t","i","o","n">> } |-> Number(100)],
      [category \in { <<"A","d","m","i","n","i","s","t","r","a","t","i","o","n">>, <<"I","n","c","o","m","e">> } |->
         IF category = <<"I","n","c","o","m","e">> THEN Number(100) ELSE Number(0)] }

\* numbers np.random.normal(75, 20) can give: below 10, within, above 100
NormalDraws == { Number(5), Number(75), Number(130) }

\* the two clipped ends only
ExtremeDraws == { Number(5), Number(130) }

Draws(d, simulations, numbers) == [1..simulations -> [unique_categories(d) -> numbers]]

InitEngine ==
    /\ df \in EngineDatasets
    /\ data_version = 0
    /\ summary_stats = EmptyStats
    /\ AuthInit
    /\ last = [op |-> "dataset"]

RiskCall ==
    /\ last.op = "dataset"
    /\ \E out \in { calculate_risk_assessment(df) } :
          /\ df' = out.df
          /\ last' = [op |-> "calculate_risk_assessment", out |-> out]
          /\ UNCHANGED <<data_version, summary_stats, auth_vars>>

ScenarioCall ==
    /\ last.op = "dataset"
    /\ \E probabilities \in ProbabilityMaps :
       \E out \in { apply_probability_scenario(df, probabilities) } :
          /\ df' = out.df
          /\ last' = [op |-> "apply_probability_scenario", probabilities |-> probabilities,
                      out |-> out]
          /\ UNCHANGED <<data_version, summary_stats, auth_vars>>

ProjectionCall ==
    /\ last.op = "dataset"
    /\ \E months_ahead \in 0..MaxMonths :
       \E out \in { generate_cash_flow_projection(df, months_ahead) } :
          /\ df' = out.df
          /\ last' = [op |-> "generate_cash_flow_projection", months_ahead |-> months_ahead,
                      out |-> out]
          /\ UNCHANGED <<data_version, summary_stats, auth_vars>>

MonteCarloCall(simulations, numbers) ==
    /\ last.op = "dataset"
    /\ \E normal \in (IF col_count(df, <<"c","a","t","e","g","o","r","y">>) = 1 THEN Draws(df, simulations, numbers)
                      ELSE { <<>> }) :
       \E out \in { calculate_monte_carlo_simulation(df, simulations, normal) } :
          /\ df' = out.df
          /\ last' = [op |-> "calculate_monte_carlo_simulation", simulations |-> simulations,
                      normal |-> normal, out |-> out]
          /\ UNCHANGED <<data_version, summary_stats, auth_vars>>

StatisticsCall ==
    /\ last.op = "dataset"
    /\ \E out \in { get_summary_statistics(df) } :
          /\ last' = [op |-> "get_summary_statistics", out |-> out]
          /\ UNCHANGED <<df, data_version, summary_stats, auth_vars>>

\* a caller of get_data that empties the object it got
GetDataCall ==
    /\ last.op = "dataset"
    /\ \E got \in { get_data(df) } :
       \E emptied \in { [got.frame EXCEPT !.rows = <<>>] } :
          /\ df' = after_writes(df, got, emptied)
          /\ last' = [op |-> "get_data", out |-> emptied]
          /\ UNCHANGED <<data_version, summary_stats, auth_vars>>

NextEngine ==
    \/ RiskCall
    \/ ScenarioCall
    \/ ProjectionCall
    \/ MonteCarloCall(1, NormalDraws)
    \/ StatisticsCall
    \/ GetDataCall

SpecEngine == InitEngine /\ [][NextEngine]_vars

(***************************************************************************)
(* Specification of the Monte Carlo simulation on its own: runs of up to   *)
(* MaxSimulations trials over datasets of one or two categories.           *)
(***************************************************************************)
MonteCarloDatasets ==
    { EngineDatasetOf(items, << <<"b","u","d","g","e","t">>, <<"a","c","t","u","a","l">> >>) :
        items \in { << [budget |-> 10000, actual |-> 4000, category |-> <<"A","d","m","i","n","i","s","t","r","a","t","i","o","n">>] >>,
                    << [budget |-> 10000, actual |-> 4000, category |-> <<"A","d","m","i","n","i","s","t","r","a","t","i","o","n">>],
                       [budget |-> 10000, actual |-> 12000, category |-> <<"A","d","m","i","n","i","s","t","r","a","t","i","o","n">>] >>,
                    << [budget |-> 10000, actual |-> 4000, category |-> <<"A","d","m","i","n","i","s","t","r","a","t","i","o","n">>],
                       [budget |-> 0, actual |-> 4000, category |-> <<"I","n","c","o","m","e">>] >> } }

InitMonteCarlo ==
    /\ df \in MonteCarloDatasets
    /\ data_version = 0
    /\ summary_stats = EmptyStats
    /\ AuthInit
    /\ last = [op |-> "dataset"]

NextMonteCarlo == \E simulations \in 1..MaxSimulations : MonteCarloCall(simulations, ExtremeDraws)

SpecMonteCarlo == InitMonteCarlo /\ [][NextMonteCarlo]_vars

(***************************************************************************)
(* FinancialDataAccess.get_summary_statistics, called by the dashboards    *)
(* with the session dataset, one of its filtered subsets, another dataset  *)
(* or no argument (None).                                                  *)
(***************************************************************************)
\* [raised, result, summary_stats]: the result and the cache the call leaves
FinancialDataAccess_get_summary_statistics(given, session_df, version, stats) ==
    LET d == IF given = None THEN get_data(session_df).frame ELSE given IN
    IF empty(d) THEN [raised |-> FALSE, result |-> EmptyStats, summary_stats |-> stats]
    ELSE IF stats # EmptyStats /\ version > 0
         THEN [raised |-> FALSE, result |-> stats, summary_stats |-> stats]
    ELSE IF get_summary_statistics(d).raised
         THEN [raised |-> TRUE, result |-> EmptyStats, summary_stats |-> stats]
    ELSE [raised |-> FALSE, result |-> get_summary_statistics(d).stats,
          summary_stats |-> get_summary_statistics(d).stats]

GivenDatasets(d) == { None } \cup { filtered_df(d, f[1], f[2]) : f \in Filters(d) }
                    \cup { new_entry(e) : e \in ManualEntries }

AccessSummaryCall ==
    \E given \in GivenDatasets(df) :
    \E out \in { FinancialDataAccess_get_summary_statistics(given, df, data_version, summary_stats) } :
       /\ summary_stats' = out.summary_stats
       /\ last' = [op |-> "FinancialDataAccess.get_summary_statistics", accepted |-> FALSE,
                   given |-> given, out |-> out]
       /\ UNCHANGED <<df, data_version, auth_vars>>

NextAccess == ManualEntry \/ AccessSummaryCall

SpecAccess == Init /\ [][NextAccess]_vars

(***************************************************************************)
(* Authentication (auth.py) and the router (app.py).  A session_state key  *)
(* that is absent is None; a flag is Bool(b), a login time is Time(m) in   *)
(* minutes of the clock.  sha256 is taken as collision-free: the digest of *)
(* a password stands for the password.                                     *)
(***************************************************************************)
Bool(b) == [t |-> "bool", v |-> b]
Time(m) == [t |-> "datetime", v |-> m]

session_timeout_minutes == 30
admin_password == <<"a","d","m","i","n","_","p","a","s","s","w","o","r","d">>

hash_password(password) == [sha256 |-> password]

verify_password(password) == hash_password(password) = hash_password(admin_password)

\* the login keys of st.session_state
login_state == [admin_logged_in |-> admin_logged_in, admin_login_time |-> admin_login_time]

logout_admin(s) == [admin_logged_in |-> Bool(FALSE), admin_login_time |-> None]

\* variant: the age of the login is not looked at
is_admin_logged_in_without_timeout(s, t) ==
    IF s.admin_logged_in = None \/ s.admin_logged_in = Bool(FALSE)
    THEN [result |-> FALSE, state |-> s]
    ELSE [result |-> TRUE, state |-> s]

\* [result, state]: the answer at time t and the login keys the call leaves
is_admin_logged_in(s, t) ==
    IF s.admin_logged_in = None \/ s.admin_logged_in = Bool(FALSE)
    THEN [result |-> FALSE, state |-> s]
    ELSE IF s.admin_login_time # None
            /\ t - s.admin_login_time.v > session_timeout_minutes
         THEN [result |-> FALSE, state |-> logout_admin(s)]
    ELSE [result |-> TRUE, state |-> s]

login_admin(s, password, t) ==
    IF verify_password(password)
    THEN [result |-> TRUE, state |-> [admin_logged_in |-> Bool(TRUE), admin_login_time |-> Time(t)]]
    ELSE [result |-> FALSE, state |-> s]

\* a click is the button pressed on the page shown by the last run
NoClick == [kind |-> "none", password |-> <<>>]
Click(kind) == [kind |-> kind, password |-> <<>>]
Login(password) == [kind |-> "login", password |-> password]

\* one run of the script at time t: the page it shows (view), whether the
\* run asked is_admin_logged_in (checked, with the keys before and the
\* answer), the state it leaves and whether it ends in st.rerun()
run_of(mode, state, failed, view, rerun, checked, before, result) ==
    [access_mode |-> mode, state |-> state, failed |-> failed, view |-> view, rerun |-> rerun,
     checked |-> checked, before |-> before, result |-> result]

\* _show_admin_interface
_show_admin_interface(s, failed, t, click) ==
    LET check == is_admin_logged_in(s, t) IN
    IF ~check.result
    THEN \* the login form and the switch to the public view
         IF click.kind = "login" /\ click.password # <<>>
         THEN IF login_admin(check.state, click.password, t).result
              THEN run_of(Str(<<"a","d","m","i","n">>), login_admin(check.state, click.password, t).state, failed,
                          "login_form", TRUE, TRUE, s, FALSE)
              ELSE run_of(Str(<<"a","d","m","i","n">>), login_admin(check.state, click.password, t).state,
                          failed + 1, "login_form", FALSE, TRUE, s, FALSE)
         ELSE IF click.kind = "switch_public"
              THEN run_of(Str(<<"p","u","b","l","i","c">>), check.state, failed, "login_form", TRUE, TRUE, s, FALSE)
         ELSE run_of(Str(<<"a","d","m","i","n">>), check.state, failed, "login_form", FALSE, TRUE, s, FALSE)
    ELSE \* show_admin_dashboard: the header with Logout, the dashboard, the footer
         IF click.kind = "logout"
         THEN run_of(Str(<<"a","d","m","i","n">>), logout_admin(check.state), failed, "admin_header", TRUE, TRUE, s, TRUE)
         ELSE IF click.kind = "admin_to_public"
              THEN run_of(Str(<<"p","u","b","l","i","c">>), check.state, failed, "admin_dashboard", TRUE, TRUE, s, TRUE)
         ELSE run_of(Str(<<"a","d","m","i","n">>), check.state, failed, "admin_dashboard", FALSE, TRUE, s, TRUE)

\* main: the route taken for the access mode
main(mode, s, failed, t, click) ==
    IF mode = None
    THEN IF click.kind = "public_view"
         THEN run_of(Str(<<"p","u","b","l","i","c">>), s, failed, "access_selector", TRUE, FALSE, s, FALSE)
         ELSE IF click.kind = "admin_access"
              THEN run_of(Str(<<"a","d","m","i","n">>), s, failed, "access_selector", TRUE, FALSE, s, FALSE)
         ELSE run_of(None, s, failed, "access_selector", FALSE, FALSE, s, FALSE)
    ELSE IF mode = Str(<<"p","u","b","l","i","c">>)
         THEN IF click.kind = "admin_login"
              THEN run_of(Str(<<"a","d","m","i","n">>), s, failed, "public_header", TRUE, FALSE, s, FALSE)
              ELSE run_of(mode, s, failed, "public_dashboard", FALSE, FALSE, s, FALSE)
    ELSE _show_admin_interface(s, failed, t, click)

Passwords == { admin_password, <<"l","e","t","m","e","i","n">>, <<>> }

\* the buttons of the page on the screen
Clicks(view) ==
    {NoClick}
    \cup (CASE view = "access_selector" -> {Click("public_view"), Click("admin_access")}
            [] view = "public_dashboard" -> {Click("admin_login")}
            [] view = "login_form" -> {Click("switch_public")} \cup {Login(p) : p \in Passwords}
            [] view = "admin_dashboard" -> {Click("logout"), Click("admin_to_public")}
            [] OTHER -> {})

InitApp ==
    /\ SessionInit
    /\ last = [op |-> "start", at |-> 0, click |-> NoClick, view |-> "nothing", runs |-> <<>>]

\* a user interaction: the script runs, and runs again after st.rerun()
ScriptRun ==
    \E click \in Clicks(last.view) :
    \E first \in {main(access_mode, login_state, failed_login_attempts, now, click)} :
    \E final \in {IF first.rerun
                  THEN main(first.access_mode, first.state, first.failed, now, NoClick)
                  ELSE first} :
       /\ final.failed <= MaxFailedLogins
       /\ access_mode' = final.access_mode
       /\ admin_logged_in' = final.state.admin_logged_in
       /\ admin_login_time' = final.state.admin_login_time
       /\ failed_login_attempts' = final.failed
       /\ last' = [op |-> "main", at |-> now, click |-> click, view |-> final.view,
                   runs |-> IF first.rerun THEN <<first, final>> ELSE <<first>>]
       /\ UNCHANGED <<df, data_version, summary_stats, now>>

\* a minute passes
Tick ==
    /\ now < MaxClock
    /\ now' = now + 1
    /\ UNCHANGED <<df, data_version, summary_stats, last, access_mode, admin_logged_in,
                   admin_login_time, failed_login_attempts>>

NextApp == ScriptRun \/ Tick

SpecApp == InitApp /\ [][NextApp]_vars

(***************************************************************************)
(* Claims about the probability engine.                                    *)
(***************************************************************************)
\* the cell of a row under a column of the frame d
cell_of(d, row, name) == row[col_index(d, name)]

Aggregations == { "get_summary_statistics", "calculate_risk_assessment",
                  "generate_cash_flow_projection", "calculate_monte_carlo_simulation" }

\* C11: on the empty dataset no aggregation raises: get_summary_statistics
\* returns the empty summary, and the risk assessment, the cash flow
\* projection and the Monte Carlo simulation return instead of raising (the
\* projection returns no rows).
C11_NoFailureOnEmptyInput ==
    (last.op \in Aggregations /\ df = EmptyDF)
    => /\ ~last.out.raised
       /\ (last.op = "get_summary_statistics" => last.out.stats = EmptyStats)
       /\ (last.op = "generate_cash_flow_projection" => last.out.result = EmptyDF)

RiskCategories == { <<"N","o"," ","B","u","d","g","e","t">>, <<"L","o","w"," ","R","i","s","k">>, <<"M","e","d","i","u","m"," ","R","i","s","k">>, <<"H","i","g","h"," ","R","i","s","k">>, <<"C","r","i","t","i","c","a","l"," ","R","i","s","k">> }

\* |budget - actual| / |budget| * 100 <= k, on amounts
WithinPercent(budget, actual, k) == magnitude(budget - actual) * 100 <= k * magnitude(budget)

\* the category the claim gives a row
ClaimedCategory(budget, actual) ==
    IF budget = 0 THEN <<"N","o"," ","B","u","d","g","e","t">>
    ELSE IF WithinPercent(budget, actual, 5) THEN <<"L","o","w"," ","R","i","s","k">>
    ELSE IF WithinPercent(budget, actual, 15) THEN <<"M","e","d","i","u","m"," ","R","i","s","k">>
    ELSE IF WithinPercent(budget, actual, 30) THEN <<"H","i","g","h"," ","R","i","s","k">>
    ELSE <<"C","r","i","t","i","c","a","l"," ","R","i","s","k">>

RiskReturned == last.op = "calculate_risk_assessment" /\ ~last.out.raised

\* C12: every row of a risk assessment has exactly one of the five
\* categories: No Budget when budget == 0, whatever the actual; otherwise Low
\* Risk up to 5 percent of absolute variance, Medium Risk up to 15, High Risk
\* up to 30 (bounds included), Critical Risk above.
C12_RiskClassification ==
    RiskReturned
    => /\ Len(last.out.result.rows) = Len(df.rows)
       /\ \A r \in 1..Len(df.rows) :
            LET row == last.out.result.rows[r]
                category == cell_of(last.out.result, row, <<"r","i","s","k","_","c","a","t","e","g","o","r","y">>)
            IN /\ category.t = "str"
               /\ category.s \in RiskCategories
               /\ category.s = ClaimedCategory(cell_of(df, df.rows[r], budget_col(df)).v,
                                               cell_of(df, df.rows[r], actual_col(df)).v)

\* a row at exactly 5 percent is Low Risk, next to a row without budget but
\* with an actual that is No Budget
C12_Witness ==
    /\ RiskReturned
    /\ \E r \in 1..Len(df.rows) :
          /\ cell_of(df, df.rows[r], budget_col(df)) = Num(10000)
          /\ cell_of(df, df.rows[r], actual_col(df)) = Num(9500)
          /\ cell_of(last.out.result, last.out.result.rows[r], <<"r","i","s","k","_","c","a","t","e","g","o","r","y">>) = Str(<<"L","o","w"," ","R","i","s","k">>)
    /\ \E r \in 1..Len(df.rows) :
          /\ cell_of(df, df.rows[r], budget_col(df)) = Num(0)
          /\ cell_of(df, df.rows[r], actual_col(df)) = Num(4000)
          /\ cell_of(last.out.result, last.out.result.rows[r], <<"r","i","s","k","_","c","a","t","e","g","o","r","y">>) = Str(<<"N","o"," ","B","u","d","g","e","t">>)

\* C13: every row of a risk assessment with budget == 0 has variance_pct == 0
\* and risk_score == 0, whatever its actual.
C13_ZeroBudgetZeroVariance ==
    RiskReturned
    => \A r \in 1..Len(df.rows) :
          cell_of(df, df.rows[r], budget_col(df)) = Num(0)
          => /\ cell_of(last.out.result, last.out.result.rows[r], <<"v","a","r","i","a","n","c","e","_","p","c","t">>) = Number(0)
             /\ cell_of(last.out.result, last.out.result.rows[r], <<"r","i","s","k","_","s","c","o","r","e">>) = Number(0)

\* C14: every row of a risk assessment has risk_score == min(100, 2 *
\* |variance_pct|): the score is a number from 0 to 100, and it is 100
\* exactly when |variance_pct| >= 50.
C14_RiskScoreClamped ==
    RiskReturned
    => \A r \in 1..Len(last.out.result.rows) :
          LET row == last.out.result.rows[r]
              v == cell_of(last.out.result, row, <<"v","a","r","i","a","n","c","e","_","p","c","t">>)
              score == cell_of(last.out.result, row, <<"r","i","s","k","_","s","c","o","r","e">>)
              at_least_50 == v.t = "inf" \/ (v.t = "rat" /\ magnitude(v.n) >= 50 * v.d)
          IN /\ v.t \in {"rat", "inf"}
             /\ score.t = "rat"
             /\ 0 <= score.n /\ score.n <= 100 * score.d
             /\ (score = Number(100)) <=> at_least_50
             /\ ~at_least_50 => score.n * v.d = 2 * magnitude(v.n) * score.d

\* a row at exactly 50 percent scores 100, next to a row that scores between
\* 0 and 100
C14_Witness ==
    /\ RiskReturned
    /\ \E r \in 1..Len(last.out.result.rows) :
          /\ cell_of(last.out.result, last.out.result.rows[r], <<"v","a","r","i","a","n","c","e","_","p","c","t">>) = Number(50)
          /\ cell_of(last.out.result, last.out.result.rows[r], <<"r","i","s","k","_","s","c","o","r","e">>) = Number(100)
    /\ \E r \in 1..Len(last.out.result.rows) :
          /\ cell_of(last.out.result, last.out.result.rows[r], <<"v","a","r","i","a","n","c","e","_","p","c","t">>) = Number(6)
          /\ cell_of(last.out.result, last.out.result.rows[r], <<"r","i","s","k","_","s","c","o","r","e">>) = Number(12)

ScenarioReturned == last.op = "apply_probability_scenario" /\ ~last.out.raised

\* the percentage the map gives a category, 100 when it has none
ClaimedPercent(probabilities, category) ==
    IF category \in DOMAIN probabilities THEN probabilities[category].n ELSE 100

\* C15: a scenario has one row per row of the dataset, in the same order,
\* with probability_factor == p / 100 for the percentage p of the row's
\* category (100 when the map has none), remaining_budget == budget - actual,
\* projected_remaining == remaining_budget * probability_factor,
\* projected_total == actual + projected_remaining and projected_variance ==
\* budget - projected_total.
C15_ScenarioColumns ==
    ScenarioReturned
    => /\ Len(last.out.result.rows) = Len(df.rows)
       /\ \A r \in 1..Len(df.rows) :
            LET row == last.out.result.rows[r]
                budget == cell_of(df, df.rows[r], budget_col(df)).v
                actual == cell_of(df, df.rows[r], actual_col(df)).v
                p == ClaimedPercent(last.probabilities, cell_of(df, df.rows[r], <<"c","a","t","e","g","o","r","y">>).s)
            IN /\ SubSeq(row, 1, Len(df.columns)) = df.rows[r]
               /\ cell_of(last.out.result, row, <<"p","r","o","b","a","b","i","l","i","t","y","_","f","a","c","t","o","r">>) = Rat(p, 100)
               /\ cell_of(last.out.result, row, <<"r","e","m","a","i","n","i","n","g","_","b","u","d","g","e","t">>) = Rat(budget - actual, 1)
               /\ cell_of(last.out.result, row, <<"p","r","o","j","e","c","t","e","d","_","r","e","m","a","i","n","i","n","g">>)
                    = Rat((budget - actual) * p, 100)
               /\ cell_of(last.out.result, row, <<"p","r","o","j","e","c","t","e","d","_","t","o","t","a","l">>)
                    = Rat(actual * 100 + (budget - actual) * p, 100)
               /\ cell_of(last.out.result, row, <<"p","r","o","j","e","c","t","e","d","_","v","a","r","i","a","n","c","e">>)
                    = Rat(budget * 100 - (actual * 100 + (budget - actual) * p), 100)

\* a scenario of two rows, one of a category mapped to 50, one of a category
\* the map does not have
C15_Witness ==
    /\ ScenarioReturned
    /\ Len(df.rows) = 2
    /\ \E r \in 1..Len(df.rows) :
          /\ cell_of(df, df.rows[r], <<"c","a","t","e","g","o","r","y">>).s \in DOMAIN last.probabilities
          /\ cell_of(last.out.result, last.out.result.rows[r], <<"p","r","o","b","a","b","i","l","i","t","y","_","f","a","c","t","o","r">>) = Rat(1, 2)
    /\ \E r \in 1..Len(df.rows) :
          /\ cell_of(df, df.rows[r], <<"c","a","t","e","g","o","r","y">>).s \notin DOMAIN last.probabilities
          /\ cell_of(last.out.result, last.out.result.rows[r], <<"p","r","o","b","a","b","i","l","i","t","y","_","f","a","c","t","o","r">>) = Number(1)

MonteCarloReturned == last.op = "calculate_monte_carlo_simulation" /\ ~last.out.raised

\* the number of a draw brought into 10..100
ClaimedFactor(drawn) == IF drawn.n < 10 * drawn.d THEN Number(10)
                        ELSE IF drawn.n > 100 * drawn.d THEN Number(100)
                        ELSE drawn

\* the map of one trial: one factor for every distinct category
TrialMap(trial) ==
    [category \in {cell_of(df, df.rows[r], <<"c","a","t","e","g","o","r","y">>).s : r \in 1..Len(df.rows)} |->
       ClaimedFactor(last.normal[trial][category])]

\* C17: a run of `simulations` trials returns exactly `simulations` samples,
\* and each sample is the sum of projected_variance of the scenario under a
\* map that gives every distinct category of the dataset one factor from 10
\* to 100.
C17_MonteCarloSamples ==
    MonteCarloReturned
    => /\ Len(last.out.result.all_results) = last.simulations
       /\ \A trial \in 1..last.simulations :
            /\ \A category \in DOMAIN TrialMap(trial) :
                  /\ le(Number(10), TrialMap(trial)[category])
                  /\ le(TrialMap(trial)[category], Number(100))
            /\ last.out.result.all_results[trial]
                 = total(column(apply_probability_scenario(df, TrialMap(trial)).result,
                                <<"p","r","o","j","e","c","t","e","d","_","v","a","r","i","a","n","c","e">>))

\* a run of several trials over two categories, one trial drawing below 10
\* for one category and above 100 for the other
C17_Witness ==
    /\ MonteCarloReturned
    /\ last.simulations >= 3
    /\ Cardinality(unique_categories(df)) = 2
    /\ \E trial \in 1..last.simulations :
          /\ last.normal[trial][<<"A","d","m","i","n","i","s","t","r","a","t","i","o","n">>] = Number(5)
          /\ last.normal[trial][<<"I","n","c","o","m","e">>] = Number(130)
          /\ last.out.result.all_results[trial] = Number(5400)

\* one hundredth of the currency unit
Tolerance == Rat(1, 1)

\* C18: the statistics of a Monte Carlo result are ordered: percentile_5 <=
\* percentile_25 <= mean_variance (within the tolerance) <= percentile_75 <=
\* percentile_95.
C18_PercentilesAroundMean ==
    MonteCarloReturned
    => /\ le(last.out.result.percentile_5, last.out.result.percentile_25)
       /\ le(minus(last.out.result.percentile_25, Tolerance), last.out.result.mean_variance)
       /\ le(last.out.result.mean_variance, plus(last.out.result.percentile_75, Tolerance))
       /\ le(last.out.result.percentile_75, last.out.result.percentile_95)

\* the smallest and the largest sample
Smallest(results) == CHOOSE x \in {results[i] : i \in 1..Len(results)} :
                        \A i \in 1..Len(results) : le(x, results[i])
Largest(results) == CHOOSE x \in {results[i] : i \in 1..Len(results)} :
                       \A i \in 1..Len(results) : le(results[i], x)

\* C18, amended: percentile_5 <= percentile_25 <= percentile_75 <=
\* percentile_95, and mean_variance lies (within the tolerance) between the
\* smallest and the largest sample.
C18_PercentilesOrdered ==
    MonteCarloReturned
    => /\ le(last.out.result.percentile_5, last.out.result.percentile_25)
       /\ le(last.out.result.percentile_25, last.out.result.percentile_75)
       /\ le(last.out.result.percentile_75, last.out.result.percentile_95)
       /\ le(minus(Smallest(last.out.result.all_results), Tolerance),
             last.out.result.mean_variance)
       /\ le(last.out.result.mean_variance,
             plus(Largest(last.out.result.all_results), Tolerance))

\* five trials, four of them with the same sample: the mean is above
\* percentile_75
C18_Witness ==
    /\ MonteCarloReturned
    /\ last.simulations = 5
    /\ last.out.result.percentile_75 = Number(0)
    /\ last.out.result.percentile_95 = Number(4320)
    /\ last.out.result.mean_variance = Number(1080)

ProjectionReturned == last.op = "generate_cash_flow_projection" /\ ~last.out.raised

\* C19: the projection of N rows over M months has N * M rows, the months
\* 1..M of the first item, then those of the second, and so on; the row of
\* month m has monthly_projected == actual / 5, cumulative_projected ==
\* actual + m * (actual / 5) and remaining_budget == budget -
\* cumulative_projected.
C19_CashFlowRows ==
    ProjectionReturned
    => /\ Len(last.out.result.rows) = Len(df.rows) * last.months_ahead
       /\ \A item \in 1..Len(df.rows) : \A m \in 1..last.months_ahead :
            LET row == last.out.result.rows[(item - 1) * last.months_ahead + m]
                budget == cell_of(df, df.rows[item], budget_col(df)).v
                actual == cell_of(df, df.rows[item], actual_col(df)).v
            IN /\ cell_of(last.out.result, row, <<"d","e","s","c","r","i","p","t","i","o","n">>)
                    = cell_of(df, df.rows[item], <<"d","e","s","c","r","i","p","t","i","o","n">>)
               /\ cell_of(last.out.result, row, <<"c","a","t","e","g","o","r","y">>)
                    = cell_of(df, df.rows[item], <<"c","a","t","e","g","o","r","y">>)
               /\ cell_of(last.out.result, row, <<"m","o","n","t","h">>) = Number(m)
               /\ cell_of(last.out.result, row, <<"m","o","n","t","h","l","y","_","p","r","o","j","e","c","t","e","d">>) = Rat(actual, 5)
               /\ cell_of(last.out.result, row, <<"c","u","m","u","l","a","t","i","v","e","_","p","r","o","j","e","c","t","e","d">>)
                    = Rat(5 * actual + m * actual, 5)
               /\ cell_of(last.out.result, row, <<"r","e","m","a","i","n","i","n","g","_","b","u","d","g","e","t">>)
                    = Rat(5 * budget - (5 * actual + m * actual), 5)

\* two items projected over two months or more: four rows or more, the
\* second item's first month after the first item's last
C19_Witness ==
    /\ ProjectionReturned
    /\ Len(df.rows) = 2
    /\ last.months_ahead >= 2
    /\ cell_of(df, df.rows[1], <<"c","a","t","e","g","o","r","y">>) # cell_of(df, df.rows[2], <<"c","a","t","e","g","o","r","y">>)
    /\ cell_of(df, df.rows[2], actual_col(df)) = Num(4000)
    /\ cell_of(last.out.result, last.out.result.rows[last.months_ahead + 1], <<"m","o","n","t","h">>) = Number(1)
    /\ cell_of(last.out.result, last.out.result.rows[last.months_ahead + 2],
               <<"c","u","m","u","l","a","t","i","v","e","_","p","r","o","j","e","c","t","e","d">>) = Number(5600)

DerivedCalls == { "apply_probability_scenario", "calculate_risk_assessment",
                  "generate_cash_flow_projection", "calculate_monte_carlo_simulation",
                  "get_summary_statistics", "get_data" }

\* C20: a call of a derived computation leaves its dataset as it was, and so
\* does a change made to the dataset that get_data returned.
C20_SourceNotMutated ==
    [][last'.op \in DerivedCalls => df' = df]_vars

\* a risk assessment that wrote its three columns, the dataset still without
\* them
C20_Witness ==
    /\ RiskReturned
    /\ Len(df.rows) > 0
    /\ has_col(last.out.result, <<"r","i","s","k","_","s","c","o","r","e">>)
    /\ ~has_col(df, <<"r","i","s","k","_","s","c","o","r","e">>)

(***************************************************************************)
(* Claims on the reconciliation of CSV columns, the PDF text and the       *)
(* session (C21 to C30).                                                   *)
(***************************************************************************)
\* process_csv returned a dataset: nothing raised and the frame has rows
CsvReconciled == last.op = "process_csv" /\ ~last.out.raised /\ ~empty(last.out.df)

\* C21: reconciling the dataset that a successful CSV reconciliation returned
\* changes nothing: the second pass returns the same columns under the same
\* names in the same order, and the same values in every row.
C21_ReconciliationIdempotent ==
    CsvReconciled
    => /\ ~reconcile(last.out.df).raised
       /\ reconcile(last.out.df).df.columns = last.out.df.columns
       /\ reconcile(last.out.df).df.rows = last.out.df.rows

\* a file with two aliases of budget, the later alias first in the file, whose
\* first pass renamed one column and backfilled balance, category and type
C21_Witness ==
    /\ CsvReconciled
    /\ last.csv.header = << <<"I","t","e","m">>, <<"P","l","a","n","n","e","d">>, <<"B","u","d","g","e","t","e","d">>, <<"S","p","e","n","t">> >>
    /\ Len(last.csv.rows) = 2
    /\ last.out.df.columns = << <<"d","e","s","c","r","i","p","t","i","o","n">>, <<"p","l","a","n","n","e","d">>, <<"b","u","d","g","e","t">>, <<"a","c","t","u","a","l">>,
                                <<"b","a","l","a","n","c","e">>, <<"c","a","t","e","g","o","r","y">>, <<"t","y","p","e">> >>

SheetBuilt == last.op = "create_summary_sheet" /\ ~last.out.raised

\* the row of the sheet whose Category is TOTAL
TotalRow(sheet) == sheet.rows[CHOOSE i \in 1..Len(sheet.rows) : sheet.rows[i].Category = <<"T","O","T","A","L">>]

\* C22: for every dataset that is not empty, the TOTAL row of the summary
\* sheet of create_summary_sheet carries the total_budget, total_actual and
\* total_variance that get_summary_statistics computes for the dataset.
C22_SheetTotalsMatchSummary ==
    (SheetBuilt /\ ~get_summary_statistics(last.d).raised)
    => /\ Cardinality({i \in 1..Len(last.out.rows) : last.out.rows[i].Category = <<"T","O","T","A","L">>}) = 1
       /\ TotalRow(last.out).Budget = get_summary_statistics(last.d).stats.total_budget
       /\ TotalRow(last.out).Actual = get_summary_statistics(last.d).stats.total_actual
       /\ TotalRow(last.out).Variance = get_summary_statistics(last.d).stats.total_variance

\* two items, one of each type, with different budgets: the TOTAL row is
\* followed by one category row and two type rows
C22_Witness ==
    /\ SheetBuilt
    /\ Len(last.items) = 2
    /\ last.items[1].type # last.items[2].type
    /\ last.items[1].budget # last.items[2].budget
    /\ Len(last.out.rows) = 4
    /\ TotalRow(last.out).Variance # 0

\* C23: a coded line whose third amount has the minus sign before the
\* currency symbol (-£45,809.00) gives one record whose balance is the
\* negative amount, the record of the same line written £-45,809.00.
C23_MinusBeforeSymbol ==
    (last.op = "_parse_financial_text" /\ last.style = "minus_first" /\ ~skipped(last.line))
    => /\ Len(last.out) = 1
       /\ last.out[1].balance = last.amounts[3].value
       /\ last.out = _parse_financial_text(
                        PageOf(last.header, CodedLine(last.code, last.description, last.amounts)))

\* the lines of a document in document order, page after page
RECURSIVE DocumentLines(_)
DocumentLines(pages) ==
    IF pages = <<>> THEN <<>>
    ELSE (IF Head(pages) # <<>>
          THEN [i \in 1..Len(split(Head(pages), "\n")) |-> strip(split(Head(pages), "\n")[i])]
          ELSE <<>>)
         \o DocumentLines(Tail(pages))

IsHeaderLine(line) == ~skipped(line) /\ _is_category_header(line)

\* the text of the most recent header line before line i, empty without one
ActiveCategory(lines, i) ==
    IF \E j \in 1..(i - 1) : IsHeaderLine(lines[j])
    THEN lines[CHOOSE j \in 1..(i - 1) :
                 IsHeaderLine(lines[j]) /\ \A k \in (j + 1)..(i - 1) : ~IsHeaderLine(lines[k])]
    ELSE <<>>

RECURSIVE ClaimedRecords(_, _)
ClaimedRecords(lines, i) ==
    IF i > Len(lines) THEN <<>>
    ELSE (IF skipped(lines[i]) \/ IsHeaderLine(lines[i]) THEN <<>>
          ELSE _parse_financial_line(lines[i], ActiveCategory(lines, i)))
         \o ClaimedRecords(lines, i + 1)

\* C24: the category of every record extracted from a document is the text
\* of the most recent category-header line before the record's line in
\* document order, a header on an earlier page included, and is empty only
\* when no header precedes it; a header line produces no record.
C24_CategoryPersists ==
    (last.op = "extract_pdf_tables" /\ last.pdf.readable)
    => last.out = ClaimedRecords(DocumentLines(last.pdf.pages), 1)

Targets == {column_mappings[t].target : t \in 1..Len(column_mappings)}

\* the names of the source columns after normalisation, in file order
SourceNames(csv) == standardize(read_csv(csv).df).columns

\* name is the alias of target that comes first in its priority list among
\* the aliases present in the normalised header
EarliestAlias(names, t, name) ==
    \E k \in 1..Len(column_mappings[t].names) :
       /\ column_mappings[t].names[k] = name
       /\ \A m \in 1..(k - 1) :
             \A j \in 1..Len(names) : names[j] # column_mappings[t].names[m]

ClaimedName(names, name) ==
    IF \E t \in 1..Len(column_mappings) : EarliestAlias(names, t, name)
    THEN column_mappings[CHOOSE t \in 1..Len(column_mappings) : EarliestAlias(names, t, name)].target
    ELSE name

\* C25: in a successful reconciliation the column renamed to a canonical
\* target is the alias that comes first in the target's priority list, and
\* it keeps its values; every other source column keeps its normalised name;
\* at most one source column becomes each target, so no two columns of the
\* result carry the same canonical name.
C25_FirstAliasWins ==
    CsvReconciled
    => /\ \A j \in 1..Len(SourceNames(last.csv)) :
             /\ last.out.df.columns[j] = ClaimedName(SourceNames(last.csv), SourceNames(last.csv)[j])
             /\ \A r \in 1..Len(last.out.df.rows) :
                   last.out.df.rows[r][j] = read_csv(last.csv).df.rows[r][j]
       /\ \A target \in Targets :
             Cardinality({j \in 1..Len(last.out.df.columns) :
                            last.out.df.columns[j] = target}) <= 1

HasTypeColumn(csv) == \E j \in 1..Len(SourceNames(csv)) : SourceNames(csv)[j] = <<"t","y","p","e">>

\* the cells of the input's type column
InputTypes(csv) ==
    LET j == CHOOSE j \in 1..Len(SourceNames(csv)) : SourceNames(csv)[j] = <<"t","y","p","e">>
    IN [r \in 1..Len(read_csv(csv).df.rows) |-> read_csv(csv).df.rows[r][j]]

\* the sign-of-budget heuristic
HeuristicType(budget) ==
    IF budget.t = "num" /\ budget.v < 0 THEN Str(<<"I","n","c","o","m","e">>) ELSE Str(<<"E","x","p","e","n","d","i","t","u","r","e">>)

\* C26: the type is backfilled only when absent: a CSV input with a type
\* column that reconciles successfully keeps the type value of every row in
\* the type column of the output; the sign-of-budget heuristic gives the type
\* only when the input has no type column.
C26_TypeKeptWhenPresent ==
    CsvReconciled
    => /\ col_count(last.out.df, <<"t","y","p","e">>) = 1
       /\ HasTypeColumn(last.csv) => column(last.out.df, <<"t","y","p","e">>) = InputTypes(last.csv)
       /\ ~HasTypeColumn(last.csv)
            => \A r \in 1..Len(last.out.df.rows) :
                  column(last.out.df, <<"t","y","p","e">>)[r] = HeuristicType(column(last.out.df, <<"b","u","d","g","e","t">>)[r])

\* C27: every successful mutating operation (PDF upload, CSV upload, manual
\* entry, Save Changes) increments data_version by exactly 1 and recomputes
\* the cached summary: in every state reached with data_version > 0 the
\* cached summary_stats is get_summary_statistics of the session dataset.
C27_CacheCoherent ==
    [][ /\ last'.accepted => data_version' = data_version + 1
        /\ data_version' > 0 => /\ ~get_summary_statistics(df').raised
                                /\ summary_stats' = get_summary_statistics(df').stats ]_vars

\* C28: FinancialDataAccess.get_summary_statistics(df) returns the summary of
\* the dataset it is given: for every non-empty df passed explicitly and
\* every session state the result is FinancialDataProcessor's
\* get_summary_statistics(df), never a summary cached for another dataset.
C28_SummaryOfGivenDataset ==
    (last.op = "FinancialDataAccess.get_summary_statistics"
     /\ last.given # None /\ ~empty(last.given)
     /\ ~get_summary_statistics(last.given).raised)
    => /\ ~last.out.raised
       /\ last.out.result = get_summary_statistics(last.given).stats

\* the rows of d that the filters leave out of the editor
HiddenRows(d, category_filter, type_filter) ==
    select_rows(d.rows,
        [r \in 1..Len(d.rows) |->
           \/ (category_filter # <<"A","l","l">> /\ d.rows[r][col_index(d, <<"c","a","t","e","g","o","r","y">>)] # Str(category_filter))
           \/ (type_filter # <<"A","l","l">> /\ d.rows[r][col_index(d, <<"t","y","p","e">>)] # Str(type_filter))])

Occurrences(rows, row) == Cardinality({r \in 1..Len(rows) : rows[r] = row})

\* C29: Save Changes under a category or type filter loses no hidden row:
\* every row of the session dataset that the filter excluded is present and
\* unchanged in the session dataset after the save.
C29_HiddenRowsKept ==
    [][ (last'.op = "save_changes"
         /\ (last'.category_filter # <<"A","l","l">> \/ last'.type_filter # <<"A","l","l">>))
        => LET hidden == HiddenRows(df, last'.category_filter, last'.type_filter) IN
           /\ df'.columns = df.columns
           /\ \A h \in 1..Len(hidden) :
                 Occurrences(df'.rows, hidden[h]) >= Occurrences(hidden, hidden[h]) ]_vars

\* the access mode under which run i of the last interaction was routed
RouteOf(i) == IF i = 1 THEN access_mode ELSE last'.runs[1].access_mode

\* the login keys with which run i started had a login older than 30 minutes
ExpiredBefore(run, minute) ==
    /\ run.before.admin_logged_in = Bool(TRUE)
    /\ run.before.admin_login_time # None
    /\ minute - run.before.admin_login_time.v > 30

\* C30: the admin dashboard is rendered only under access mode admin, after a
\* login_admin with the correct password, and no more than 30 minutes after
\* that login; a login older than 30 minutes makes is_admin_logged_in return
\* False and clear the login state, which stays logged out until the next
\* successful login_admin; a login_admin with a wrong password leaves the
\* login state as it was.
C30_AdminNeedsValidSession ==
    [][ (last'.op = "main" /\ now' = now)
        => /\ \A i \in 1..Len(last'.runs) :
                 LET run == last'.runs[i] IN
                 /\ run.view = "admin_dashboard"
                      => /\ RouteOf(i) = Str(<<"a","d","m","i","n">>)
                         /\ run.checked /\ run.result
                         /\ run.before.admin_logged_in = Bool(TRUE)
                         /\ run.before.admin_login_time # None
                         /\ last'.at - run.before.admin_login_time.v <= 30
                 /\ (run.checked /\ ExpiredBefore(run, last'.at))
                      => /\ ~run.result
                         /\ run.state = [admin_logged_in |-> Bool(FALSE), admin_login_time |-> None]
                 /\ (run.checked /\ run.before.admin_logged_in # Bool(TRUE)) => ~run.result
           /\ (admin_logged_in' = Bool(TRUE) /\ admin_logged_in # Bool(TRUE))
                 => /\ last'.click = Login(admin_password)
                    /\ admin_login_time' = Time(now)
           /\ admin_logged_in' = Bool(TRUE) => admin_login_time' # None
           /\ (last'.click.kind = "login" /\ last'.click.password # admin_password)
                 => /\ admin_logged_in' = admin_logged_in
                    /\ admin_login_time' = admin_login_time ]_vars

\* a login at minute 0 whose dashboard was shown, and a run at minute 31 that
\* found it expired, cleared it and showed the login form
C30_Witness ==
    /\ last.op = "main"
    /\ last.at = 31
    /\ Len(last.runs) = 1
    /\ last.runs[1].checked
    /\ last.runs[1].before = [admin_logged_in |-> Bool(TRUE), admin_login_time |-> Time(0)]
    /\ ~last.runs[1].result
    /\ last.view = "login_form"
    /\ admin_logged_in = Bool(FALSE)
    /\ admin_login_time = None

====
